---- MODULE Spec2Model ----
(***************************************************************************)
(* SabaLessShare: envelope encryption of a payload into a share link, its  *)
(* receipt, and the dynamic pointer layer (create / receive / update).     *)
(*                                                                         *)
(* Cryptography is symbolic: a ciphertext records the key, IV and AAD it   *)
(* was produced under, and authenticated decryption succeeds exactly when  *)
(* all three match and no bit of the ciphertext was changed.  Random       *)
(* values (DEKs, salts, IVs, storage identifiers) are fresh counters.      *)
(* Time is the number of milliseconds since the epoch.                     *)
(***************************************************************************)
EXTENDS Integers, Sequences, FiniteSets, TLC

\* ---------------------------------------------------------------- bounds
MaxLinks == 1
MaxUpdates == 2
MaxDay == 2

\* ------------------------------------------------------ program constants
MsPerDay == 86400000
EndOfDayMs == 86399999
DEFAULT_SIMPLE_MODE_PAYLOAD_LIMIT == 7700

\* ------------------------------------------------------------- input sets
Payloads == {1, 2}
Passwords == {"pw1", "pw2"}
\* what a caller may pass as password / what the prompt may return:
\* undefined or null ("null"), the empty string, or a real password
PasswordInputs == {"null", ""} \cup Passwords
Modes == {"simple", "cloud", "undefined"}
Offsets == {0, 1, EndOfDayMs}
Instants == {d * MsPerDay + o : d \in 1..MaxDay, o \in Offsets}
\* expiresInDays: undefined, or a number of days
ExpiresInDaysInputs ==
    {[finite |-> FALSE, days |-> 0]} \cup {[finite |-> TRUE, days |-> n] : n \in {0, 1}}

\* ------------------------------------------------------------ value forms
\* an expiry string: absent (null / undefined / ""), YYYY-MM-DD (v = day
\* number), or some other text
NoExp == [fmt |-> "none", v |-> 0]
DateStr(d) == [fmt |-> "date", v |-> d]
JunkStr == [fmt |-> "junk", v |-> 0]
\* the full timestamp toISOString() gives for the instant ms
IsoStr(ms) == [fmt |-> "iso", v |-> ms]

NoKey == [k |-> "none", id |-> 0, pw |-> "", salt |-> 0]
DekKey(n) == [k |-> "dek", id |-> n, pw |-> "", salt |-> 0]

\* byte strings: a payload, its gzip form, the UTF-8 text of an identifier,
\* the raw bytes of a DEK
NoBody == [t |-> "none", v |-> 0]
Raw(p) == [t |-> "raw", v |-> p]
IdText(n) == [t |-> "id", v |-> n]
RawDek(n) == [t |-> "dek", v |-> n]

NoCt == [key |-> NoKey, iv |-> 0, aad |-> NoExp, body |-> NoBody, flip |-> 0]

\* text fields of a URL; "absent" stands for a missing or empty parameter
AbsentCt == [present |-> FALSE, b64 |-> NoCt]
AbsentNum == [present |-> FALSE, b64 |-> 0]
AbsentKey == [present |-> FALSE, dot |-> FALSE, c |-> AbsentCt, i |-> AbsentNum, d |-> AbsentNum]

Truthy(text) == text.present

\* ---------------------------------------------------------------- crypto
\* btoa over the bytes of the buffer
arrayBufferToBase64(buffer) == [present |-> TRUE, b64 |-> buffer]

\* atob, then the bytes of the binary string
base64ToArrayBuffer(base64) == base64.b64

\* mutant: the receiver hands back the decrypted bytes without inflating them
ungzip_noop(body) == body

\* pako.gzip / pako.ungzip
gzip(body) == [t |-> "gz", v |-> body.v]
ungzipOk(body) == body.t = "gz"
ungzip(body) == [t |-> "raw", v |-> body.v]

\* the argument check of generateKek: !password || !salt.  A salt is a byte
\* array or is not given; an array is truthy whatever its length
generateKekThrows(password, salt) == password \in {"null", ""} \/ ~salt.given

\* Argon2id(password, salt) imported as an AES-GCM key
generateKek(password, salt) == [k |-> "kek", id |-> 0, pw |-> password, salt |-> salt]

\* crypto.subtle.exportKey('raw', key) and its base64 form
exportKeyToString(key) ==
    [present |-> TRUE, dot |-> FALSE, c |-> AbsentCt, i |-> AbsentNum,
     d |-> arrayBufferToBase64(key.id)]

\* mutant: the link of a protected payload carries the exported DEK
wrappedKeyString_exported(encDek) ==
    [present |-> TRUE, dot |-> FALSE, c |-> AbsentCt, i |-> AbsentNum,
     d |-> arrayBufferToBase64(encDek.ciphertext.body.v)]

\* `${b64(ciphertext)}.${b64(iv)}`
wrappedKeyString(encDek) ==
    [present |-> TRUE, dot |-> TRUE, c |-> arrayBufferToBase64(encDek.ciphertext),
     i |-> arrayBufferToBase64(encDek.iv), d |-> AbsentNum]

\* bytes that are not as long as an AES key
ShortBytes == 0 - 1

\* importKeyFromString succeeds on base64 text of a raw key; atob and
\* crypto.subtle.importKey throw on anything else
importKeyFromStringOk(keyString) ==
    /\ ~keyString.dot
    /\ keyString.d.present
    /\ base64ToArrayBuffer(keyString.d) # ShortBytes
importKeyFromString(keyString) == DekKey(base64ToArrayBuffer(keyString.d))

\* mutant: the AAD is never bound
encryptData_noAad(key, data, additionalData, iv) ==
    [ciphertext |-> [key |-> key, iv |-> iv, aad |-> NoExp, body |-> data, flip |-> 0],
     iv |-> iv]

\* AES-GCM under a fresh 12-byte IV; the AAD is bound when it is given
encryptData(key, data, additionalData, iv) ==
    [ciphertext |-> [key |-> key, iv |-> iv, aad |-> additionalData, body |-> data, flip |-> 0],
     iv |-> iv]

\* mutant: the authentication tag is not verified
decryptOk_noTag(key, ciphertext, iv, additionalData) ==
    /\ ciphertext.key = key
    /\ key.k # "none"

\* mutant: a ciphertext made under any key is accepted
decryptOk_anyKey(key, ciphertext, iv, additionalData) ==
    /\ ciphertext.key.k # "none"
    /\ ciphertext.iv = iv
    /\ ciphertext.aad = additionalData
    /\ ciphertext.flip = 0

\* AES-GCM decryption: the tag verifies only under the same key, IV and AAD
\* and for an unmodified ciphertext; any failure is a DecryptionError
decryptOk(key, ciphertext, iv, additionalData) ==
    /\ ciphertext.key = key
    /\ key.k # "none"
    /\ ciphertext.iv = iv
    /\ ciphertext.aad = additionalData
    /\ ciphertext.flip = 0
decryptData(key, ciphertext, iv, additionalData) == ciphertext.body

\* ------------------------------------------------------------------ dates
\* new Date(ms).toISOString().slice(0, 10)
isoDate(ms) == DateStr(ms \div MsPerDay)

\* mutant: the expiry instant is the start of the expiry day
endOfDay_midnight(expdate) ==
    IF expdate.fmt = "date" THEN [valid |-> TRUE, ms |-> expdate.v * MsPerDay]
    ELSE [valid |-> FALSE, ms |-> 0]

\* new Date(expdate + 'T23:59:59.999Z'): NaN unless expdate is YYYY-MM-DD
endOfDay(expdate) ==
    IF expdate.fmt = "date" THEN [valid |-> TRUE, ms |-> expdate.v * MsPerDay + EndOfDayMs]
    ELSE [valid |-> FALSE, ms |-> 0]

\* new Date(expdate): a date-only string is midnight UTC of that day
parseDate(expdate) ==
    CASE expdate.fmt = "date" -> [valid |-> TRUE, ms |-> expdate.v * MsPerDay]
      [] expdate.fmt = "iso" -> [valid |-> TRUE, ms |-> expdate.v]
      [] OTHER -> [valid |-> FALSE, ms |-> 0]

\* mutant: no instant is after the expiry
isAfter_never(t, date) == FALSE

\* new Date() > date; a comparison with NaN is false
isAfter(t, date) == date.valid /\ t > date.ms

\* -------------------------------------------------------------- URL codec
NoHash == [k |-> AbsentKey, key |-> AbsentKey, i |-> AbsentNum, iv |-> AbsentNum,
           m |-> "", mode |-> "", s |-> AbsentNum, salt |-> AbsentNum,
           x |-> NoExp, expdate |-> NoExp]
NoSearch == [data |-> AbsentCt, p |-> AbsentCt, epayload |-> AbsentCt]
NoLocation == [search |-> NoSearch, hash |-> NoHash]

\* mutant: only the first name is looked up
OrText_first(a, b) == a

OrText(a, b) == IF Truthy(a) THEN a ELSE b
OrExp(a, b) == IF a.fmt # "none" THEN a ELSE b
OrStr(a, b) == IF a # "" THEN a ELSE b

\* mutant: the order of simple mode is used for every mode
getEpayloadByMode_dataFirst(mode, queryParams) ==
    OrText(queryParams.data, OrText(queryParams.p, OrText(queryParams.epayload, AbsentCt)))

getEpayloadByMode(mode, queryParams) ==
    IF mode = "cloud" \/ mode = "dynamic"
    THEN OrText(queryParams.p, OrText(queryParams.epayload, OrText(queryParams.data, AbsentCt)))
    ELSE OrText(queryParams.data, OrText(queryParams.p, OrText(queryParams.epayload, AbsentCt)))

\* mutant: every mode tag is read as simple
modeMap_allSimple(rawMode) == "simple"

\* mutant: only the single letters are known
modeMap_lettersOnly(rawMode) ==
    CASE rawMode = "s" -> "simple"
      [] rawMode = "c" -> "cloud"
      [] rawMode = "d" -> "dynamic"
      [] OTHER -> "simple"

\* names every object literal inherits from Object.prototype; looking one
\* up in modeMap gives the inherited member, which is truthy
ObjectPrototypeNames == {"constructor", "toString", "valueOf", "hasOwnProperty", "__proto__"}
Inherited(name) == "Object.prototype." \o name

\* modeMap[rawMode] || 'simple'
modeMap(rawMode) ==
    CASE rawMode \in {"s", "simple"} -> "simple"
      [] rawMode \in {"c", "cloud"} -> "cloud"
      [] rawMode \in {"d", "dynamic"} -> "dynamic"
      [] rawMode \in ObjectPrototypeNames -> Inherited(rawMode)
      [] OTHER -> "simple"

parseShareUrl(location) ==
    LET fragmentParams == location.hash
        key == OrText(fragmentParams.k, fragmentParams.key)
        iv == OrText(fragmentParams.i, fragmentParams.iv)
        rawMode == OrStr(fragmentParams.m, OrStr(fragmentParams.mode, "s"))
        mode == modeMap(rawMode)
    IN  [match |-> Truthy(key) /\ Truthy(iv),
         mode |-> mode,
         salt |-> OrText(fragmentParams.s, fragmentParams.salt),
         expdate |-> OrExp(fragmentParams.x, fragmentParams.expdate),
         key |-> key,
         iv |-> iv,
         epayload |-> getEpayloadByMode(mode, location.search)]

\* ------------------------------------------------------- stored contents
\* what a storage collaborator holds under an identifier: an encrypted
\* record {ciphertext, iv}, or the UTF-8 text of another identifier
NoContent == [isEnc |-> FALSE, ciphertext |-> NoCt, iv |-> 0, text |-> NoBody]
EncContent(enc) == [isEnc |-> TRUE, ciphertext |-> enc.ciphertext, iv |-> enc.iv, text |-> NoBody]
TextContent(body) == [isEnc |-> FALSE, ciphertext |-> NoCt, iv |-> 0, text |-> body]

\* length of the gzip form of a payload, and of the base64 form of its
\* AES-GCM ciphertext (16-byte tag): payload p stands for 3000 * p bytes
\* that do not compress
gzipLength(p) == 3000 * p + 23
base64Length(n) == 4 * ((n + 2) \div 3)
\* mutant: the length of the ciphertext bytes, not of their base64 form
epayloadLength_bytes(body) ==
    IF body.t = "gz" THEN gzipLength(body.v) + 16 ELSE 36 + 16

epayloadLength(body) ==
    IF body.t = "gz" THEN base64Length(gzipLength(body.v) + 16) ELSE base64Length(36 + 16)

\* ----------------------------------------------------------- static flow
\* mutant: only null counts as "no password"
Falsy_nullOnly(password) == password = "null"

\* !password
Falsy(password) == password \in {"null", ""}

\* what a collaborator is handed in one call: a record to store, a text (an
\* identifier as the caller has it), a URL
Msg(to, content, text, url) == [to |-> to, content |-> content, text |-> text, url |-> url]

CreateFail(status, calls) ==
    [status |-> status, location |-> NoLocation, upload |-> NoContent, calls |-> calls,
     sent |-> <<>>]

\* mutant: the payload always travels in p
paramName_p(mode) == "p"

\* the name of the query parameter that carries the encrypted payload
paramName(mode) == IF mode = "simple" THEN "data" ELSE "p"

\* `?${paramName}=${encodeURIComponent(epayload)}`
queryOf(name, epayload) ==
    IF name = "data" THEN [NoSearch EXCEPT !.data = epayload]
    ELSE [NoSearch EXCEPT !.p = epayload]

\* mutant: the shortener is handed the finished link, fragment included
shortenUrlInput_withFragment(search, hash) == [search |-> search, hash |-> hash]

\* the URL handed to shortenUrlHandler: base and query, nothing else
shortenUrlInput(search, hash) == [search |-> search, hash |-> NoHash]

\* createShareLink; rnd holds the random values the call would draw, fileId
\* the identifier uploadHandler returns, shortenOk whether shortenUrlHandler
\* resolves
createShareLink(data, mode, password, expiresInDays, simpleModePayloadLimit, t, rnd, fileId, shortenOk) ==
    LET dek == DekKey(rnd.dek)
        expStr == IF expiresInDays.finite THEN isoDate(t + expiresInDays.days * MsPerDay)
                  ELSE NoExp
        aad == expStr
        simple == mode = "simple"
        uploadData == encryptData(dek, Raw(data), aad, rnd.iv1)
        enc == IF simple THEN encryptData(dek, gzip(Raw(data)), aad, rnd.iv1)
               ELSE encryptData(dek, IdText(fileId), aad, rnd.iv2)
        calls1 == IF simple THEN <<"encrypt">> ELSE <<"encrypt", "upload", "encrypt">>
        usePw == ~Falsy(password)
        salt == IF usePw THEN arrayBufferToBase64(rnd.salt) ELSE AbsentNum
        kek == generateKek(password, rnd.salt)
        encDek == encryptData(kek, RawDek(rnd.dek), NoExp, rnd.iv3)
        keyString == IF usePw THEN wrappedKeyString(encDek) ELSE exportKeyToString(dek)
        calls2 == IF usePw THEN calls1 \o <<"kek", "encrypt">> ELSE calls1
        m == CASE mode = "simple" -> "s" [] mode = "cloud" -> "c" [] OTHER -> "s"
        epayload == arrayBufferToBase64(enc.ciphertext)
        hash == [NoHash EXCEPT !.i = arrayBufferToBase64(enc.iv), !.k = keyString,
                               !.s = salt, !.x = expStr, !.m = m]
        search == queryOf(paramName(mode), epayload)
        upload == IF simple THEN NoContent ELSE EncContent(uploadData)
        sent1 == IF simple THEN <<>> ELSE <<Msg("upload", upload, NoBody, NoLocation)>>
        sent2 == Append(sent1, Msg("shorten", NoContent, NoBody, shortenUrlInput(search, hash)))
    IN  IF simple /\ epayloadLength(enc.ciphertext.body) > simpleModePayloadLimit
        THEN [CreateFail("PayloadTooLargeError", calls2) EXCEPT !.upload = upload,
                                                                !.sent = sent1]
        ELSE IF ~shortenOk
        THEN [CreateFail("Error", Append(calls2, "shorten")) EXCEPT !.upload = upload,
                                                                    !.sent = sent2]
        ELSE [status |-> "ok", location |-> [search |-> search, hash |-> hash],
              upload |-> upload, calls |-> Append(calls2, "shorten"), sent |-> sent2]

\* createShareLink as the earlier version of the library had it: expiresIn
\* is in ms (0: none); the payload is uploaded in both modes and the link
\* carries the encrypted file identifier in epayload and long-form names in
\* the fragment
createShareLinkLegacy(data, mode, password, expiresIn, t, rnd, fileId) ==
    LET dek == DekKey(rnd.dek)
        expdate == IF expiresIn # 0 THEN IsoStr(t + expiresIn) ELSE NoExp
        aad == expdate
        payloadToEncrypt == IF mode = "simple" THEN gzip(Raw(data)) ELSE Raw(data)
        uploadData == encryptData(dek, payloadToEncrypt, aad, rnd.iv1)
        enc == encryptData(dek, IdText(fileId), aad, rnd.iv2)
        usePw == ~Falsy(password)
        salt == IF usePw THEN arrayBufferToBase64(rnd.salt) ELSE AbsentNum
        kek == generateKek(password, rnd.salt)
        encDek == encryptData(kek, RawDek(rnd.dek), NoExp, rnd.iv3)
        keyString == IF usePw THEN wrappedKeyString(encDek) ELSE exportKeyToString(dek)
        calls1 == <<"encrypt", "upload", "encrypt">>
        calls2 == IF usePw THEN calls1 \o <<"kek", "encrypt">> ELSE calls1
        hash == [NoHash EXCEPT !.iv = arrayBufferToBase64(enc.iv), !.key = keyString,
                               !.salt = salt, !.expdate = expdate, !.mode = mode]
        search == [NoSearch EXCEPT !.epayload = arrayBufferToBase64(enc.ciphertext)]
        upload == EncContent(uploadData)
    IN  [status |-> "ok", location |-> [search |-> search, hash |-> hash],
         upload |-> upload, calls |-> Append(calls2, "shorten"),
         sent |-> <<Msg("upload", upload, NoBody, NoLocation),
                    Msg("shorten", NoContent, NoBody, [search |-> search, hash |-> NoHash])>>]


Fail(status, calls) == [status |-> status, out |-> NoBody, calls |-> calls, sent |-> <<>>]

\* mutant: a failed unwrapping is tried a second time
unwrapDek_retry(key, salt, password, calls) ==
    IF Falsy(password) THEN [Fail("PasswordRequiredError", calls) EXCEPT !.out = NoBody]
    ELSE LET kek == generateKek(password, base64ToArrayBuffer(salt))
             calls2 == Append(calls, "kek")
         IN  IF ~(key.dot /\ key.c.present /\ key.i.present) THEN Fail("Error", calls2)
             ELSE LET ct == base64ToArrayBuffer(key.c)
                      iv == base64ToArrayBuffer(key.i)
                      calls3 == Append(calls2, "decrypt")
                  IN  IF ~decryptOk(kek, ct, iv, NoExp)
                      THEN Fail("DecryptionError", calls3 \o <<"kek", "decrypt">>)
                      ELSE IF decryptData(kek, ct, iv, NoExp).t # "dek" THEN Fail("Error", calls3)
                      ELSE [status |-> "ok", out |-> decryptData(kek, ct, iv, NoExp),
                            calls |-> calls3, sent |-> <<>>]

\* reconstruction of the DEK from the k field: unwrap under the KEK when the
\* link has a salt, import the exported key otherwise
unwrapDek(key, salt, password, calls) ==
    IF Falsy(password) THEN [Fail("PasswordRequiredError", calls) EXCEPT !.out = NoBody]
    ELSE LET kek == generateKek(password, base64ToArrayBuffer(salt))
             calls2 == Append(calls, "kek")
         IN  IF ~(key.dot /\ key.c.present /\ key.i.present) THEN Fail("Error", calls2)
             ELSE LET ct == base64ToArrayBuffer(key.c)
                      iv == base64ToArrayBuffer(key.i)
                      calls3 == Append(calls2, "decrypt")
                  IN  IF ~decryptOk(kek, ct, iv, NoExp) THEN Fail("DecryptionError", calls3)
                      ELSE IF decryptData(kek, ct, iv, NoExp).t # "dek" THEN Fail("Error", calls3)
                      ELSE [status |-> "ok", out |-> decryptData(kek, ct, iv, NoExp),
                            calls |-> calls3, sent |-> <<>>]

\* the body of receiveSharedData inside its try block
receiveSharedDataTry(location, t, promptPw, files, hasDownloadHandler, hasPrompt) ==
    LET params == parseShareUrl(location)
        mode == params.mode
        expdate == params.expdate
    IN
    IF ~params.match THEN Fail("InvalidLinkError", <<>>)
    ELSE IF mode = "cloud" /\ ~hasDownloadHandler THEN Fail("Error", <<>>)
    ELSE IF ~Truthy(params.epayload) THEN Fail("InvalidLinkError", <<>>)
    ELSE IF expdate.fmt # "none" /\ isAfter(t, endOfDay(expdate))
    THEN Fail("ExpiredLinkError", <<>>)
    ELSE
    LET salted == Truthy(params.salt)
        un == IF salted /\ ~hasPrompt THEN Fail("TypeError", <<>>)
              ELSE IF salted THEN unwrapDek(params.key, params.salt, promptPw, <<"prompt">>)
              ELSE IF importKeyFromStringOk(params.key)
              THEN [status |-> "ok", out |-> RawDek(base64ToArrayBuffer(params.key.d)),
                    calls |-> <<>>, sent |-> <<>>]
              ELSE Fail("Error", <<>>)
    IN
    IF un.status # "ok" THEN un
    ELSE
    LET dek == DekKey(un.out.v)
        aad == expdate
        encPayloadBuffer == base64ToArrayBuffer(params.epayload)
        iv == base64ToArrayBuffer(params.iv)
        calls1 == Append(un.calls, "decrypt")
    IN
    IF ~decryptOk(dek, encPayloadBuffer, iv, aad) THEN Fail("DecryptionError", calls1)
    ELSE
    LET first == decryptData(dek, encPayloadBuffer, iv, aad) IN
    IF mode = "simple"
    THEN IF ungzipOk(first)
         THEN [status |-> "ok", out |-> ungzip(first), calls |-> calls1, sent |-> <<>>]
         ELSE Fail("Error", calls1)
    ELSE
    LET fileId == first.v
        calls2 == Append(calls1, "download")
        sent2 == <<Msg("download", NoContent, first, NoLocation)>>
    IN
    IF ~hasDownloadHandler THEN Fail("Error", calls1)
    ELSE IF ~(first.t = "id" /\ fileId \in DOMAIN files)
    THEN [Fail("Error", calls2) EXCEPT !.sent = sent2]
    ELSE
    LET downloadData == files[fileId]
        calls3 == Append(calls2, "decrypt")
    IN
    IF ~decryptOk(dek, downloadData.ciphertext, downloadData.iv, aad)
    THEN [Fail("DecryptionError", calls3) EXCEPT !.sent = sent2]
    ELSE [status |-> "ok",
          out |-> decryptData(dek, downloadData.ciphertext, downloadData.iv, aad),
          calls |-> calls3, sent |-> sent2]

\* the finally block of a receipt: nothing where there is no history object;
\* otherwise history.replaceState is called, and an exception it throws
\* replaces the outcome of the try block
finallyScrub(r, history) ==
    CASE history = "undefined" -> r
      [] history = "throws" ->
           [Fail("SecurityError", Append(r.calls, "scrub")) EXCEPT !.sent = r.sent]
      [] OTHER -> [r EXCEPT !.calls = Append(@, "scrub")]

\* mutant: the download handler is called before the mode is looked at
receiveSharedData_prefetch(location, t, promptPw, files, hasDownloadHandler, hasPrompt, history) ==
    LET r == finallyScrub(receiveSharedDataTry(location, t, promptPw, files,
                                               hasDownloadHandler, hasPrompt),
                          history)
    IN  [r EXCEPT !.calls = <<"download">> \o @]

\* receiveSharedData: the try block, then the history scrub of the finally
receiveSharedData(location, t, promptPw, files, hasDownloadHandler, hasPrompt, history) ==
    finallyScrub(receiveSharedDataTry(location, t, promptPw, files, hasDownloadHandler,
                                      hasPrompt),
                 history)

\* ---------------------------------------------------------- dynamic flow
\* mutant: a storage failure surfaces as a plain error that names nothing
StorageError_generic(op) == "Error"

\* the message of the error a failing storage adapter throws
AdapterMessage == "Not found"

\* new Error(`Storage adapter failed during '${op}': ${err.message}`)
StorageError(op) == (("Storage adapter failed during '" \o op) \o "': ") \o AdapterMessage

\* mutant: the key field is always imported as an exported DEK
_reconstructDek_noUnwrap(key, salt, password) ==
    IF importKeyFromStringOk(key)
    THEN [status |-> "ok", out |-> RawDek(base64ToArrayBuffer(key.d)), calls |-> <<>>,
          sent |-> <<>>]
    ELSE Fail("Error", <<>>)

\* _reconstructDek
_reconstructDek(key, salt, password) ==
    IF Truthy(salt) THEN unwrapDek(key, salt, password, <<>>)
    ELSE IF importKeyFromStringOk(key)
    THEN [status |-> "ok", out |-> RawDek(base64ToArrayBuffer(key.d)), calls |-> <<>>,
          sent |-> <<>>]
    ELSE Fail("Error", <<>>)

DynFail(status, calls, st) ==
    [status |-> status, location |-> NoLocation, pointerFileId |-> 0, key |-> AbsentKey,
     salt |-> AbsentNum, store |-> st, calls |-> calls, sent |-> <<>>]

\* createDynamicLink over the storage st; adapter.create returns the next
\* free identifier; failAt names the adapter call that fails (0: none)
createDynamicLink(data, password, expiresInDays, t, rnd, st, failAt) ==
    LET dek == DekKey(rnd.dek)
        encData == encryptData(dek, Raw(data), NoExp, rnd.iv1)
        dataFileId == Len(st) + 1
        st1 == Append(st, EncContent(encData))
        pointerContent == IdText(dataFileId)
        pointerFileId == Len(st1) + 1
        st2 == Append(st1, TextContent(pointerContent))
        enc == encryptData(dek, IdText(pointerFileId), NoExp, rnd.iv2)
        usePw == ~Falsy(password)
        salt == IF usePw THEN arrayBufferToBase64(rnd.salt) ELSE AbsentNum
        kek == generateKek(password, rnd.salt)
        encDek == encryptData(kek, RawDek(rnd.dek), NoExp, rnd.iv3)
        keyString == IF usePw THEN wrappedKeyString(encDek) ELSE exportKeyToString(dek)
        calls1 == <<"encrypt", "create", "create", "encrypt">>
        calls2 == IF usePw THEN calls1 \o <<"kek", "encrypt">> ELSE calls1
        x == IF expiresInDays.finite THEN isoDate(t + expiresInDays.days * MsPerDay) ELSE NoExp
        hash == [NoHash EXCEPT !.i = arrayBufferToBase64(enc.iv), !.k = keyString,
                               !.m = "d", !.s = salt, !.x = x]
        search == [NoSearch EXCEPT !.p = arrayBufferToBase64(enc.ciphertext)]
        sent == <<Msg("create", EncContent(encData), NoBody, NoLocation),
                  Msg("create", TextContent(pointerContent), NoBody, NoLocation)>>
    IN  IF failAt = 1
        THEN [DynFail(StorageError("create"), <<"encrypt", "create">>, st)
                 EXCEPT !.sent = <<sent[1]>>]
        ELSE IF failAt = 2
        THEN [DynFail(StorageError("create"), <<"encrypt", "create", "create">>, st1)
                 EXCEPT !.sent = sent]
        ELSE [status |-> "ok", location |-> [search |-> search, hash |-> hash],
              pointerFileId |-> pointerFileId, key |-> keyString, salt |-> salt,
              store |-> st2, calls |-> calls2, sent |-> sent]

\* the body of receiveDynamicData inside its try block
receiveDynamicDataTry(location, t, promptPw, st, failAt) ==
    LET params == parseShareUrl(location)
        expdate == params.expdate
    IN
    IF ~params.match \/ params.mode # "dynamic" THEN Fail("InvalidLinkError", <<>>)
    ELSE IF expdate.fmt # "none" /\ isAfter(t, parseDate(expdate))
    THEN Fail("ExpiredLinkError", <<>>)
    ELSE
    LET salted == Truthy(params.salt)
        password == IF salted THEN promptPw ELSE "null"
        calls0 == IF salted THEN <<"prompt">> ELSE <<>>
        rd == _reconstructDek(params.key, params.salt, password)
    IN
    IF rd.status # "ok" THEN [rd EXCEPT !.calls = calls0 \o @]
    ELSE
    LET dek == DekKey(rd.out.v)
        payloadBuffer == base64ToArrayBuffer(params.epayload)
        iv == base64ToArrayBuffer(params.iv)
        calls1 == (calls0 \o rd.calls) \o <<"decrypt">>
    IN
    IF ~decryptOk(dek, payloadBuffer, iv, NoExp) THEN Fail("DecryptionError", calls1)
    ELSE
    LET pointerBuffer == decryptData(dek, payloadBuffer, iv, NoExp)
        pointerFileId == pointerBuffer.v
        calls2 == Append(calls1, "read")
        sent2 == <<Msg("read", NoContent, pointerBuffer, NoLocation)>>
    IN
    IF failAt = 1 \/ ~(pointerBuffer.t = "id" /\ pointerFileId \in DOMAIN st)
    THEN [Fail(StorageError("read"), calls2) EXCEPT !.sent = sent2]
    ELSE
    LET pointerData == st[pointerFileId] IN
    IF pointerData.isEnc THEN [Fail("Error", calls2) EXCEPT !.sent = sent2]
    ELSE
    LET dataFileId == pointerData.text.v
        calls3 == Append(calls2, "read")
        sent3 == Append(sent2, Msg("read", NoContent, pointerData.text, NoLocation))
    IN
    IF failAt = 2 \/ ~(pointerData.text.t = "id" /\ dataFileId \in DOMAIN st)
    THEN [Fail(StorageError("read"), calls3) EXCEPT !.sent = sent3]
    ELSE
    LET encryptedData == st[dataFileId]
        calls4 == Append(calls3, "decrypt")
    IN
    IF ~(encryptedData.isEnc
         /\ decryptOk(dek, encryptedData.ciphertext, encryptedData.iv, NoExp))
    THEN [Fail("DecryptionError", calls4) EXCEPT !.sent = sent3]
    ELSE [status |-> "ok",
          out |-> decryptData(dek, encryptedData.ciphertext, encryptedData.iv, NoExp),
          calls |-> calls4, sent |-> sent3]

\* mutant: the storage is read before the password is asked for
receiveDynamicData_promptLast(location, t, promptPw, st, hasAdapter, hasPrompt, history, failAt) ==
    IF ~hasAdapter \/ ~hasPrompt THEN Fail("Error", <<>>)
    ELSE LET r == finallyScrub(receiveDynamicDataTry(location, t, promptPw, st, failAt), history)
         IN  [r EXCEPT !.calls = SelectSeq(@, LAMBDA e : e # "prompt")
                                 \o SelectSeq(@, LAMBDA e : e = "prompt")]

\* receiveDynamicData: the option checks, which come before the try block,
\* then the try block and the history scrub of its finally
receiveDynamicData(location, t, promptPw, st, hasAdapter, hasPrompt, history, failAt) ==
    IF ~hasAdapter \/ ~hasPrompt THEN Fail("Error", <<>>)
    ELSE finallyScrub(receiveDynamicDataTry(location, t, promptPw, st, failAt), history)

UpdFail(status, calls, st) ==
    [status |-> status, dataFileId |-> 0, store |-> st, calls |-> calls, sent |-> <<>>]

\* mutant: a data record created before adapter.update fails is removed again
updateDynamicLink_rollback(pointerFileId, newData, key, salt, password, iv, st, failAt) ==
    IF pointerFileId = 0 THEN UpdFail("Error", <<>>, st)
    ELSE IF ~Truthy(key) THEN UpdFail("Error", <<>>, st)
    ELSE
    LET rd == _reconstructDek(key, salt, password) IN
    IF rd.status # "ok" THEN UpdFail(rd.status, rd.calls, st)
    ELSE
    LET dek == DekKey(rd.out.v)
        encData == encryptData(dek, Raw(newData), NoExp, iv)
        dataFileId == Len(st) + 1
        st1 == Append(st, EncContent(encData))
        st2 == [st1 EXCEPT ![pointerFileId] = TextContent(IdText(dataFileId))]
        sent == <<Msg("create", EncContent(encData), NoBody, NoLocation),
                  Msg("update", TextContent(IdText(dataFileId)), IdText(pointerFileId),
                      NoLocation)>>
    IN  IF failAt = 1
        THEN [UpdFail(StorageError("create"), rd.calls \o <<"encrypt", "create">>, st)
                 EXCEPT !.sent = <<sent[1]>>]
        ELSE IF failAt = 2
        THEN [UpdFail(StorageError("update"), rd.calls \o <<"encrypt", "create", "update">>, st)
                 EXCEPT !.sent = sent]
        ELSE [status |-> "ok", dataFileId |-> dataFileId, store |-> st2,
              calls |-> rd.calls \o <<"encrypt", "create", "update">>, sent |-> sent]

\* mutant: the new ciphertext overwrites the data record the pointer names
updateDynamicLink_inPlace(pointerFileId, newData, key, salt, password, iv, st, failAt) ==
    IF pointerFileId = 0 THEN UpdFail("Error", <<>>, st)
    ELSE IF ~Truthy(key) THEN UpdFail("Error", <<>>, st)
    ELSE
    LET rd == _reconstructDek(key, salt, password) IN
    IF rd.status # "ok" THEN UpdFail(rd.status, rd.calls, st)
    ELSE
    LET dek == DekKey(rd.out.v)
        encData == encryptData(dek, Raw(newData), NoExp, iv)
        dataFileId == st[pointerFileId].text.v
        st1 == [st EXCEPT ![dataFileId] = EncContent(encData)]
    IN  IF failAt # 0
        THEN UpdFail(StorageError("update"), rd.calls \o <<"encrypt", "update">>, st)
        ELSE [status |-> "ok", dataFileId |-> dataFileId, store |-> st1,
              calls |-> rd.calls \o <<"encrypt", "update">>,
              sent |-> <<Msg("update", EncContent(encData), IdText(dataFileId), NoLocation)>>]

\* mutant: the new data record is stored but the pointer record is not rewritten
updateDynamicLink_noRepoint(pointerFileId, newData, key, salt, password, iv, st, failAt) ==
    IF pointerFileId = 0 THEN UpdFail("Error", <<>>, st)
    ELSE IF ~Truthy(key) THEN UpdFail("Error", <<>>, st)
    ELSE
    LET rd == _reconstructDek(key, salt, password) IN
    IF rd.status # "ok" THEN UpdFail(rd.status, rd.calls, st)
    ELSE
    LET dek == DekKey(rd.out.v)
        encData == encryptData(dek, Raw(newData), NoExp, iv)
        dataFileId == Len(st) + 1
        st1 == Append(st, EncContent(encData))
    IN  IF failAt = 1
        THEN [UpdFail(StorageError("create"), rd.calls \o <<"encrypt", "create">>, st)
                 EXCEPT !.sent = <<Msg("create", EncContent(encData), NoBody, NoLocation)>>]
        ELSE IF failAt = 2
        THEN [UpdFail(StorageError("update"), rd.calls \o <<"encrypt", "create", "update">>, st1)
                 EXCEPT !.sent = <<Msg("create", EncContent(encData), NoBody, NoLocation),
                                   Msg("update", TextContent(IdText(dataFileId)),
                                       IdText(pointerFileId), NoLocation)>>]
        ELSE [status |-> "ok", dataFileId |-> dataFileId, store |-> st1,
              calls |-> rd.calls \o <<"encrypt", "create", "update">>,
              sent |-> <<Msg("create", EncContent(encData), NoBody, NoLocation),
                         Msg("update", TextContent(IdText(dataFileId)),
                             IdText(pointerFileId), NoLocation)>>]

\* mutant: the pointerFileId option is not checked
updateDynamicLink_noPtrCheck(pointerFileId, newData, key, salt, password, iv, st, failAt) ==
    IF ~Truthy(key) THEN UpdFail("Error", <<>>, st)
    ELSE
    LET rd == _reconstructDek(key, salt, password) IN
    IF rd.status # "ok" THEN UpdFail(rd.status, rd.calls, st)
    ELSE
    LET dek == DekKey(rd.out.v)
        encData == encryptData(dek, Raw(newData), NoExp, iv)
        dataFileId == Len(st) + 1
        st1 == Append(st, EncContent(encData))
        st2 == IF pointerFileId \in DOMAIN st1
               THEN [st1 EXCEPT ![pointerFileId] = TextContent(IdText(dataFileId))]
               ELSE st1
    IN  IF failAt = 1
        THEN [UpdFail(StorageError("create"), rd.calls \o <<"encrypt", "create">>, st)
                 EXCEPT !.sent = <<Msg("create", EncContent(encData), NoBody, NoLocation)>>]
        ELSE IF failAt = 2
        THEN [UpdFail(StorageError("update"), rd.calls \o <<"encrypt", "create", "update">>, st1)
                 EXCEPT !.sent = <<Msg("create", EncContent(encData), NoBody, NoLocation),
                                   Msg("update", TextContent(IdText(dataFileId)),
                                       IdText(pointerFileId), NoLocation)>>]
        ELSE [status |-> "ok", dataFileId |-> dataFileId, store |-> st2,
              calls |-> rd.calls \o <<"encrypt", "create", "update">>,
              sent |-> <<Msg("create", EncContent(encData), NoBody, NoLocation),
                         Msg("update", TextContent(IdText(dataFileId)),
                             IdText(pointerFileId), NoLocation)>>]

\* mutant: the new record is stored before the key is reconstructed
updateDynamicLink_storeFirst(pointerFileId, newData, key, salt, password, iv, st, failAt) ==
    IF pointerFileId = 0 THEN UpdFail("Error", <<>>, st)
    ELSE IF ~Truthy(key) THEN UpdFail("Error", <<>>, st)
    ELSE
    LET rd == _reconstructDek(key, salt, password)
        held == EncContent(encryptData(DekKey(0), Raw(newData), NoExp, iv))
    IN
    IF rd.status # "ok"
    THEN [UpdFail(rd.status, <<"create">> \o rd.calls, Append(st, held))
             EXCEPT !.sent = <<Msg("create", held, NoBody, NoLocation)>>]
    ELSE
    LET dek == DekKey(rd.out.v)
        encData == encryptData(dek, Raw(newData), NoExp, iv)
        dataFileId == Len(st) + 1
        st1 == Append(st, EncContent(encData))
        st2 == [st1 EXCEPT ![pointerFileId] = TextContent(IdText(dataFileId))]
    IN  [status |-> "ok", dataFileId |-> dataFileId, store |-> st2,
         calls |-> <<"create">> \o rd.calls \o <<"encrypt", "update">>,
         sent |-> <<Msg("create", EncContent(encData), NoBody, NoLocation),
                    Msg("update", TextContent(IdText(dataFileId)),
                        IdText(pointerFileId), NoLocation)>>]

\* updateDynamicLink; pointerFileId 0 stands for a missing option, iv is the
\* IV the encryption draws, failAt the adapter call that fails (0: none)
updateDynamicLink(pointerFileId, newData, key, salt, password, iv, st, failAt) ==
    IF pointerFileId = 0 THEN UpdFail("Error", <<>>, st)
    ELSE IF ~Truthy(key) THEN UpdFail("Error", <<>>, st)
    ELSE
    LET rd == _reconstructDek(key, salt, password) IN
    IF rd.status # "ok" THEN UpdFail(rd.status, rd.calls, st)
    ELSE
    LET dek == DekKey(rd.out.v)
        encData == encryptData(dek, Raw(newData), NoExp, iv)
        dataFileId == Len(st) + 1
        st1 == Append(st, EncContent(encData))
        st2 == [st1 EXCEPT ![pointerFileId] = TextContent(IdText(dataFileId))]
    IN  IF failAt = 1
        THEN [UpdFail(StorageError("create"), rd.calls \o <<"encrypt", "create">>, st)
                 EXCEPT !.sent = <<Msg("create", EncContent(encData), NoBody, NoLocation)>>]
        ELSE IF failAt = 2
        THEN [UpdFail(StorageError("update"), rd.calls \o <<"encrypt", "create", "update">>, st1)
                 EXCEPT !.sent = <<Msg("create", EncContent(encData), NoBody, NoLocation),
                                   Msg("update", TextContent(IdText(dataFileId)),
                                       IdText(pointerFileId), NoLocation)>>]
        ELSE [status |-> "ok", dataFileId |-> dataFileId, store |-> st2,
              calls |-> rd.calls \o <<"encrypt", "create", "update">>,
              sent |-> <<Msg("create", EncContent(encData), NoBody, NoLocation),
                         Msg("update", TextContent(IdText(dataFileId)),
                             IdText(pointerFileId), NoLocation)>>]

\* ------------------------------------------------------------------ state
VARIABLES
    now,      \* the clock, in ms
    links,    \* the links created so far, with what their creator knows
    files,    \* what uploadHandler has stored; the identifier is the index
    store,    \* the records of the storage adapter; the identifier is the index
    rndCtr,   \* number of random values drawn so far
    last,     \* the operation that has just run: its inputs and its outcome
    procs     \* calls in progress that interleave at their storage calls

vars == <<now, links, files, store, rndCtr, last, procs>>

NoTamper == [kind |-> "none", x |-> NoExp]
Tampers ==
    {NoTamper, [kind |-> "ct", x |-> NoExp], [kind |-> "iv", x |-> NoExp],
     [kind |-> "long", x |-> NoExp], [kind |-> "nokey", x |-> NoExp],
     [kind |-> "noiv", x |-> NoExp], [kind |-> "decoy", x |-> NoExp]}
    \cup {[kind |-> "x", x |-> v] : v \in {NoExp, JunkStr} \cup {DateStr(d) : d \in 0..(MaxDay + 1)}}

flipBit(text) == [text EXCEPT !.b64.flip = 1 - @]
otherIv(text) == [text EXCEPT !.b64 = @ + 1000]

\* the key field with a bit changed: in the wrapped key of a protected
\* link, in the exported key of an unprotected one
flipKey(key) ==
    IF key.dot THEN [key EXCEPT !.c = flipBit(@)] ELSE [key EXCEPT !.d = otherIv(@)]

\* the key field cut short: a wrapped key loses its '.' and what follows it,
\* an exported key no longer decodes to the bytes of an AES key
cutKey(key) ==
    IF key.dot THEN [key EXCEPT !.dot = FALSE, !.i = AbsentNum]
    ELSE [key EXCEPT !.d = arrayBufferToBase64(ShortBytes)]

\* the rewritings of a link that remove its payload or damage its key field
FormTampers ==
    {NoTamper, [kind |-> "nopayload", x |-> NoExp], [kind |-> "keyflip", x |-> NoExp],
     [kind |-> "keycut", x |-> NoExp], [kind |-> "ct", x |-> NoExp]}

\* the full word of a single-letter mode
longMode(m) ==
    CASE m = "s" -> "simple" [] m = "c" -> "cloud" [] m = "d" -> "dynamic" [] OTHER -> m

\* the link rewritten to the long-form names: k, i, m, s, x become key, iv,
\* mode, salt, expdate and p becomes epayload
LongForm(location) ==
    [search |-> [NoSearch EXCEPT !.data = location.search.data,
                                 !.epayload = location.search.p],
     hash |-> [NoHash EXCEPT !.key = location.hash.k, !.iv = location.hash.i,
                             !.mode = longMode(location.hash.m),
                             !.salt = location.hash.s, !.expdate = location.hash.x]]

\* the link with a corrupted copy of its payload under each payload
\* parameter name it does not use
Decoyed(location) ==
    LET real == OrText(location.search.data, OrText(location.search.p, location.search.epayload))
    IN  [location EXCEPT !.search.data = IF @.present THEN @ ELSE flipBit(real),
                         !.search.p = IF @.present THEN @ ELSE flipBit(real),
                         !.search.epayload = IF @.present THEN @ ELSE flipBit(real)]

\* a copy of the link with one field changed, removed or added, or rewritten
\* to the long form
Tampered(location, tamper) ==
    CASE tamper.kind = "long" -> LongForm(location)
      [] tamper.kind = "nokey" -> [location EXCEPT !.hash.k = AbsentKey]
      [] tamper.kind = "noiv" -> [location EXCEPT !.hash.i = AbsentNum]
      [] tamper.kind = "decoy" -> Decoyed(location)
      [] tamper.kind = "ct" ->
           [location EXCEPT !.search.data = IF @.present THEN flipBit(@) ELSE @,
                            !.search.p = IF @.present THEN flipBit(@) ELSE @,
                            !.search.epayload = IF @.present THEN flipBit(@) ELSE @]
      [] tamper.kind = "nopayload" -> [location EXCEPT !.search = NoSearch]
      [] tamper.kind = "keyflip" ->
           [location EXCEPT !.hash.k = IF @.present THEN flipKey(@) ELSE @,
                            !.hash.key = IF @.present THEN flipKey(@) ELSE @]
      [] tamper.kind = "keycut" ->
           [location EXCEPT !.hash.k = IF @.present THEN cutKey(@) ELSE @,
                            !.hash.key = IF @.present THEN cutKey(@) ELSE @]
      [] tamper.kind = "iv" -> [location EXCEPT !.hash.i = otherIv(@)]
      [] tamper.kind = "x" -> [location EXCEPT !.hash.x = tamper.x]
      [] OTHER -> location

\* a record some other user of the same storage backend has stored, and a
\* key that belongs to no link of this model
ForeignKey == DekKey(0)
ForeignContent == EncContent(encryptData(ForeignKey, Raw(0), NoExp, 500))
ForeignKeyFrom == MaxLinks + 1

\* where a receipt runs: the history object (working, throwing on
\* replaceState, or not there at all) and the option the caller left out
DefaultEnv == [history |-> "ok", missing |-> "none"]
ReceiveEnvs ==
    {[history |-> h, missing |-> "none"] : h \in {"ok", "throws", "undefined"}}
    \cup {[history |-> "ok", missing |-> o] : o \in {"handler", "prompt"}}

\* what the storage backend answers to a read or download: the stored record
\* (honest), the record with a changed ciphertext (flip), record k of the
\* backend in place of every encrypted record (data) or in place of every
\* pointer record (ptr)
MaxRecords == 3 + MaxUpdates
NoAdv == [kind |-> "honest", k |-> 0]
Advs ==
    {NoAdv, [kind |-> "flip", k |-> 0]}
    \cup {[kind |-> a, k |-> k] : a \in {"data", "ptr"}, k \in 1..MaxRecords}

flipContent(content) == [content EXCEPT !.ciphertext.flip = 1 - @]

\* the backend as an untrusted party presents it to the reader
Adversarial(st, adv) ==
    CASE adv.kind = "flip" ->
           [k \in DOMAIN st |-> IF st[k].isEnc THEN flipContent(st[k]) ELSE st[k]]
      [] adv.kind = "data" ->
           [k \in DOMAIN st |-> IF st[k].isEnc THEN st[adv.k] ELSE st[k]]
      [] adv.kind = "ptr" ->
           [k \in DOMAIN st |-> IF st[k].isEnc THEN st[k] ELSE st[adv.k]]
      [] OTHER -> st

\* the receipts the model runs over a working, honest storage: every
\* rewriting of the link in the default environment, and the link as created
\* or with a changed ciphertext in every environment
ReceiveCases ==
    {c \in [tamper : Tampers, env : ReceiveEnvs] :
        c.env = DefaultEnv \/ c.tamper.kind \in {"none", "ct"}}

\* the receipts of a link as created over a storage that works, that fails
\* at its first or second call, or that answers dishonestly
StorageCases == {c \in [failAt : 0..2, adv : Advs] : c.failAt # 0 => c.adv = NoAdv}

NoLast ==
    [op |-> "none", link |-> 0, tamper |-> NoTamper, pw |-> "null", t |-> 0,
     status |-> "none", out |-> NoBody, calls |-> <<>>, ptrGiven |-> FALSE, keyFrom |-> 0,
     env |-> DefaultEnv, data |-> 0, mode |-> "", limit |-> 0, shortenOk |-> TRUE,
     sent |-> <<>>, failAt |-> 0, adv |-> NoAdv, args |-> <<>>]

\* the calls that run concurrently on one dynamic link: two updates and one
\* receipt; each is at a position between its storage calls
Updaters == {"u1", "u2"}
IdleUpdate == [pc |-> "idle", newData |-> 0, iv |-> 0, dataFileId |-> 0]
IdleReceipt == [pc |-> "idle", pointerData |-> NoContent, status |-> "none", out |-> NoBody]
\* the creations that run concurrently over one storage backend; each is at
\* a position between its awaits and holds what it has drawn and been
\* returned so far
Creators == {"c1", "c2"}
NoRnd == [dek |-> 0, iv1 |-> 0, iv2 |-> 0, iv3 |-> 0, salt |-> 0]
IdleCreate ==
    [pc |-> "idle", kind |-> "none", data |-> 0, password |-> "null", rnd |-> NoRnd,
     fileId |-> 0, pointerFileId |-> 0, link |-> 0]
NoProcs ==
    [u |-> [p \in Updaters |-> IdleUpdate], r |-> IdleReceipt, lastUpdate |-> "none",
     c |-> [p \in Creators |-> IdleCreate]]

\* day 1, 00:00:00.000; the storage backends already hold someone else's record
Init ==
    /\ procs = NoProcs
    /\ now = MsPerDay
    /\ links = <<>>
    /\ files = <<ForeignContent>>
    /\ store = <<ForeignContent>>
    /\ rndCtr = 0
    /\ last = NoLast

\* A receipt, and an update that fails before it has stored anything, leave
\* links, storage and clock as they were: whatever can follow them can follow
\* the state they ran in, so the model explores nothing further from their
\* outcome.
Observed ==
    \/ last.op \in {"receiveSharedData", "receiveDynamicData"}
    \/ last.op = "updateDynamicLink" /\ last.status # "ok" /\ last.failAt # 2

\* the clock advances
Tick ==
    /\ ~Observed
    /\ \E t \in Instants : t > now /\ now' = t
    /\ last' = NoLast
    /\ UNCHANGED <<links, files, store, rndCtr, procs>>

Draw == [dek |-> rndCtr + 1, iv1 |-> rndCtr + 2, iv2 |-> rndCtr + 3, iv3 |-> rndCtr + 4,
         salt |-> rndCtr + 5]

CreateShare(data, mode, password, expiresInDays, limit, shortenOk) ==
    /\ ~Observed
    /\ rndCtr < 5 * MaxLinks
    /\ LET r == createShareLink(data, mode, password, expiresInDays, limit, now, Draw,
                                Len(files) + 1, shortenOk)
       IN  /\ files' = IF r.upload.isEnc THEN Append(files, r.upload) ELSE files
           /\ links' = IF r.status = "ok"
                       THEN Append(links, [flow |-> "static", location |-> r.location,
                                           data |-> data, mode |-> mode, password |-> password,
                                           pointerFileId |-> 0, key |-> r.location.hash.k,
                                           salt |-> r.location.hash.s, cur |-> data,
                                           nUpd |-> 0, proper |-> TRUE, nTry |-> 0,
                                           hist |-> {data}])
                       ELSE links
           /\ last' = [NoLast EXCEPT !.op = "createShareLink", !.t = now, !.pw = password,
                                     !.link = IF r.status = "ok" THEN Len(links) + 1 ELSE 0,
                                     !.status = r.status, !.calls = r.calls,
                                     !.data = data, !.mode = mode, !.limit = limit,
                                     !.shortenOk = shortenOk, !.sent = r.sent]
    /\ rndCtr' = rndCtr + 5
    /\ UNCHANGED <<now, store, procs>>

ReceiveShared(i, tamper, promptPw, env, adv) ==
    /\ ~Observed
    /\ links[i].flow \in {"static", "legacy"}
    /\ adv.kind # "ptr" /\ adv.k <= Len(files)
    /\ LET r == receiveSharedData(Tampered(links[i].location, tamper), now, promptPw,
                                  Adversarial(files, adv),
                                  env.missing # "handler", env.missing # "prompt",
                                  env.history)
       IN  last' = [NoLast EXCEPT !.op = "receiveSharedData", !.link = i, !.tamper = tamper,
                                  !.pw = promptPw, !.t = now, !.status = r.status,
                                  !.out = r.out, !.calls = r.calls, !.env = env,
                                  !.sent = r.sent, !.adv = adv]
    /\ UNCHANGED <<now, links, files, store, rndCtr, procs>>

CreateDynamic(data, password, expiresInDays, failAt) ==
    /\ ~Observed
    /\ rndCtr < 5 * MaxLinks
    /\ LET r == createDynamicLink(data, password, expiresInDays, now, Draw, store, failAt)
       IN  /\ store' = r.store
           /\ links' = IF r.status = "ok"
                       THEN Append(links, [flow |-> "dynamic", location |-> r.location,
                                           data |-> data, mode |-> "dynamic",
                                           password |-> password,
                                           pointerFileId |-> r.pointerFileId, key |-> r.key,
                                           salt |-> r.salt, cur |-> data, nUpd |-> 0,
                                           proper |-> TRUE, nTry |-> 0, hist |-> {data}])
                       ELSE links
           /\ last' = [NoLast EXCEPT !.op = "createDynamicLink", !.t = now, !.pw = password,
                                     !.link = IF r.status = "ok" THEN Len(links) + 1 ELSE 0,
                                     !.status = r.status, !.calls = r.calls, !.data = data,
                                     !.sent = r.sent, !.failAt = failAt]
    /\ rndCtr' = rndCtr + 5
    /\ UNCHANGED <<now, files, procs>>

ReceiveDynamic(i, tamper, promptPw, env, failAt, adv) ==
    /\ ~Observed
    /\ links[i].flow = "dynamic"
    /\ adv.k <= Len(store)
    /\ LET r == receiveDynamicData(Tampered(links[i].location, tamper), now, promptPw,
                                   Adversarial(store, adv),
                                   env.missing # "handler", env.missing # "prompt",
                                   env.history, failAt)
       IN  last' = [NoLast EXCEPT !.op = "receiveDynamicData", !.link = i, !.tamper = tamper,
                                  !.pw = promptPw, !.t = now, !.status = r.status,
                                  !.out = r.out, !.calls = r.calls, !.env = env,
                                  !.sent = r.sent, !.failAt = failAt, !.adv = adv]
    /\ UNCHANGED <<now, links, files, store, rndCtr, procs>>

\* a link issued by the earlier version of the library
CreateLegacy(data, mode, password, expiresIn) ==
    /\ ~Observed
    /\ rndCtr < 5 * MaxLinks
    /\ LET r == createShareLinkLegacy(data, mode, password, expiresIn, now, Draw,
                                      Len(files) + 1)
       IN  /\ files' = Append(files, r.upload)
           /\ links' = Append(links, [flow |-> "legacy", location |-> r.location,
                                      data |-> data, mode |-> mode, password |-> password,
                                      pointerFileId |-> 0, key |-> r.location.hash.key,
                                      salt |-> r.location.hash.salt, cur |-> data,
                                      nUpd |-> 0, proper |-> TRUE, nTry |-> 0,
                                      hist |-> {data}])
           /\ last' = [NoLast EXCEPT !.op = "createShareLinkLegacy", !.t = now,
                                     !.pw = password, !.link = Len(links) + 1,
                                     !.status = r.status, !.calls = r.calls,
                                     !.data = data, !.mode = mode, !.sent = r.sent]
    /\ rndCtr' = rndCtr + 5
    /\ UNCHANGED <<now, store, procs>>

\* the key and salt a caller of updateDynamicLink passes: none (keyFrom = 0),
\* those returned when link keyFrom was created, or a key of its own making
KeyArg(keyFrom) ==
    CASE keyFrom = 0 -> AbsentKey
      [] keyFrom = ForeignKeyFrom -> exportKeyToString(ForeignKey)
      [] OTHER -> links[keyFrom].key
SaltArg(keyFrom) == IF keyFrom \in DOMAIN links THEN links[keyFrom].salt ELSE AbsentNum

\* mutant: every update of a link encrypts under the same IV
UpdateIv_reused(i) == 100 * i + 1

\* the IV the encryption of the n-th update attempt on link i draws
UpdateIv(i) == 100 * i + links[i].nTry + 1

\* an update aimed at the pointer of link i; an attempt that has stored a
\* record counts against the link whether or not the pointer was rewritten
UpdateDynamic(i, ptrGiven, keyFrom, newData, password, failAt) ==
    /\ ~Observed
    /\ links[i].flow = "dynamic"
    /\ links[i].nTry < MaxUpdates
    /\ keyFrom \in DOMAIN links => links[keyFrom].flow = "dynamic"
    /\ failAt # 0 => (ptrGiven /\ keyFrom = i)
    /\ LET r == updateDynamicLink(IF ptrGiven THEN links[i].pointerFileId ELSE 0, newData,
                                  KeyArg(keyFrom), SaltArg(keyFrom), password,
                                  UpdateIv(i), store, failAt)
           stored == Len(r.store) > Len(store)
           hist1 == IF stored /\ keyFrom = i THEN links[i].hist \cup {newData}
                    ELSE links[i].hist
       IN  /\ store' = r.store
           /\ links' = IF r.status = "ok"
                       THEN [links EXCEPT ![i].cur = newData, ![i].nUpd = @ + 1,
                                          ![i].proper = @ /\ keyFrom = i,
                                          ![i].nTry = @ + 1, ![i].hist = hist1]
                       ELSE IF stored
                       THEN [links EXCEPT ![i].nTry = @ + 1, ![i].hist = hist1]
                       ELSE links
           /\ last' = [NoLast EXCEPT !.op = "updateDynamicLink", !.link = i, !.pw = password,
                                     !.t = now, !.status = r.status, !.calls = r.calls,
                                     !.ptrGiven = ptrGiven, !.keyFrom = keyFrom,
                                     !.data = newData, !.sent = r.sent, !.failAt = failAt]
    /\ UNCHANGED <<now, files, rndCtr, procs>>

CreatePasswords == {"null", "pw1"}
\* the default limit, the encoded length of the larger payload,
\* and a limit below the length of an encrypted identifier
Limits == {DEFAULT_SIMPLE_MODE_PAYLOAD_LIMIT, 8052, 50}

StaticNext ==
    \/ Tick
    \/ \E data \in Payloads, mode \in Modes, password \in CreatePasswords,
          expiresInDays \in ExpiresInDaysInputs, limit \in Limits, shortenOk \in BOOLEAN :
          CreateShare(data, mode, password, expiresInDays, limit, shortenOk)
    \/ \E i \in DOMAIN links, c \in ReceiveCases, promptPw \in PasswordInputs :
          ReceiveShared(i, c.tamper, promptPw, c.env, NoAdv)

DynamicNext ==
    \/ Tick
    \/ \E data \in Payloads, password \in CreatePasswords,
          expiresInDays \in ExpiresInDaysInputs :
          CreateDynamic(data, password, expiresInDays, 0)
    \/ \E i \in DOMAIN links, c \in ReceiveCases, promptPw \in PasswordInputs :
          ReceiveDynamic(i, c.tamper, promptPw, c.env, 0, NoAdv)
    \/ \E i \in DOMAIN links, ptrGiven \in BOOLEAN,
          keyFrom \in {0, ForeignKeyFrom} \cup DOMAIN links,
          newData \in Payloads, password \in PasswordInputs :
          UpdateDynamic(i, ptrGiven, keyFrom, newData, password, 0)

Next ==
    \/ Tick
    \/ \E data \in Payloads, mode \in Modes, password \in CreatePasswords,
          expiresInDays \in ExpiresInDaysInputs, limit \in Limits, shortenOk \in BOOLEAN :
          CreateShare(data, mode, password, expiresInDays, limit, shortenOk)
    \/ \E i \in DOMAIN links, c \in ReceiveCases, promptPw \in PasswordInputs :
          ReceiveShared(i, c.tamper, promptPw, c.env, NoAdv)
    \/ \E data \in Payloads, password \in CreatePasswords,
          expiresInDays \in ExpiresInDaysInputs :
          CreateDynamic(data, password, expiresInDays, 0)
    \/ \E i \in DOMAIN links, c \in ReceiveCases, promptPw \in PasswordInputs :
          ReceiveDynamic(i, c.tamper, promptPw, c.env, 0, NoAdv)
    \/ \E i \in DOMAIN links, ptrGiven \in BOOLEAN,
          keyFrom \in {0, ForeignKeyFrom} \cup DOMAIN links,
          newData \in Payloads, password \in PasswordInputs :
          UpdateDynamic(i, ptrGiven, keyFrom, newData, password, 0)

\* the flows over a storage backend that may fail or answer dishonestly:
\* links are created with the default size limit and a working shortener
\* and are received as created
StorageNext ==
    \/ Tick
    \/ \E data \in Payloads, mode \in Modes, password \in CreatePasswords,
          expiresInDays \in ExpiresInDaysInputs :
          CreateShare(data, mode, password, expiresInDays,
                      DEFAULT_SIMPLE_MODE_PAYLOAD_LIMIT, TRUE)
    \/ \E i \in DOMAIN links, c \in StorageCases, promptPw \in PasswordInputs :
          c.failAt = 0 /\ ReceiveShared(i, NoTamper, promptPw, DefaultEnv, c.adv)
    \/ \E data \in Payloads, password \in CreatePasswords,
          expiresInDays \in ExpiresInDaysInputs, failAt \in 0..2 :
          CreateDynamic(data, password, expiresInDays, failAt)
    \/ \E i \in DOMAIN links, c \in StorageCases, promptPw \in PasswordInputs :
          ReceiveDynamic(i, NoTamper, promptPw, DefaultEnv, c.failAt, c.adv)
    \/ \E i \in DOMAIN links, ptrGiven \in BOOLEAN,
          keyFrom \in {0, ForeignKeyFrom} \cup DOMAIN links,
          newData \in Payloads, password \in PasswordInputs, failAt \in 0..2 :
          UpdateDynamic(i, ptrGiven, keyFrom, newData, password, failAt)

\* --------------------------------------------- interleaved calls on one link
\* a dynamic link without expiry has been created; two updateDynamicLink
\* calls with the pointer identifier, key, salt and password of the link, and
\* one receiveDynamicData call with the password, are about to start
InitInterleave ==
    \E data \in Payloads, password \in CreatePasswords, d1 \in Payloads, d2 \in Payloads :
       LET r == createDynamicLink(data, password, [finite |-> FALSE, days |-> 0], MsPerDay,
                                  [dek |-> 1, iv1 |-> 2, iv2 |-> 3, iv3 |-> 4, salt |-> 5],
                                  <<ForeignContent>>, 0)
       IN  /\ now = MsPerDay
           /\ links = <<[flow |-> "dynamic", location |-> r.location, data |-> data,
                         mode |-> "dynamic", password |-> password,
                         pointerFileId |-> r.pointerFileId, key |-> r.key, salt |-> r.salt,
                         cur |-> data, nUpd |-> 0, proper |-> TRUE, nTry |-> 0,
                         hist |-> {data}]>>
           /\ files = <<ForeignContent>>
           /\ store = r.store
           /\ rndCtr = 5
           /\ last = NoLast
           /\ procs = [u |-> [p \in Updaters |->
                                [pc |-> "start", newData |-> IF p = "u1" THEN d1 ELSE d2,
                                 iv |-> IF p = "u1" THEN 101 ELSE 102, dataFileId |-> 0]],
                       r |-> [IdleReceipt EXCEPT !.pc = "start"],
                       lastUpdate |-> "none",
                       c |-> [p \in Creators |-> IdleCreate]]

\* the DEK a call reconstructs from the key, salt and password of link 1
LinkDek == DekKey(_reconstructDek(links[1].key, links[1].salt, links[1].password).out.v)

\* updateDynamicLink up to and including adapter.create
U_create(p) ==
    /\ procs.u[p].pc = "start"
    /\ LET encData == encryptData(LinkDek, Raw(procs.u[p].newData), NoExp, procs.u[p].iv)
       IN  /\ store' = Append(store, EncContent(encData))
           /\ procs' = [procs EXCEPT !.u[p].pc = "created", !.u[p].dataFileId = Len(store) + 1]
    /\ UNCHANGED <<now, links, files, rndCtr, last>>

\* mutant: the update also deletes the data record the pointer named before
U_update_deleteOld(p) ==
    /\ procs.u[p].pc = "created"
    /\ LET pointerFileId == links[1].pointerFileId
           old == store[pointerFileId].text.v
       IN  store' = [store EXCEPT ![pointerFileId] = TextContent(IdText(procs.u[p].dataFileId)),
                                  ![old] = NoContent]
    /\ procs' = [procs EXCEPT !.u[p].pc = "done", !.lastUpdate = p]
    /\ UNCHANGED <<now, links, files, rndCtr, last>>

\* updateDynamicLink from adapter.update to its return
U_update(p) ==
    /\ procs.u[p].pc = "created"
    /\ store' = [store EXCEPT ![links[1].pointerFileId] =
                                 TextContent(IdText(procs.u[p].dataFileId))]
    /\ procs' = [procs EXCEPT !.u[p].pc = "done", !.lastUpdate = p]
    /\ UNCHANGED <<now, links, files, rndCtr, last>>

ReceiptDone(status, out) == [procs EXCEPT !.r.pc = "done", !.r.status = status, !.r.out = out]

\* receiveDynamicData up to and including the read of the pointer record
R_readPointer ==
    /\ procs.r.pc = "start"
    /\ LET params == parseShareUrl(links[1].location)
           rd == _reconstructDek(params.key, params.salt, links[1].password)
           dek == DekKey(rd.out.v)
           payloadBuffer == base64ToArrayBuffer(params.epayload)
           iv == base64ToArrayBuffer(params.iv)
           pointerBuffer == decryptData(dek, payloadBuffer, iv, NoExp)
       IN  procs' =
             IF ~params.match \/ params.mode # "dynamic"
             THEN ReceiptDone("InvalidLinkError", NoBody)
             ELSE IF rd.status # "ok" THEN ReceiptDone(rd.status, NoBody)
             ELSE IF ~decryptOk(dek, payloadBuffer, iv, NoExp)
             THEN ReceiptDone("DecryptionError", NoBody)
             ELSE IF ~(pointerBuffer.t = "id" /\ pointerBuffer.v \in DOMAIN store)
             THEN ReceiptDone(StorageError("read"), NoBody)
             ELSE [procs EXCEPT !.r.pc = "gotPointer", !.r.pointerData = store[pointerBuffer.v]]
    /\ UNCHANGED <<now, links, files, store, rndCtr, last>>

\* receiveDynamicData from the read of the data record to its return
R_readData ==
    /\ procs.r.pc = "gotPointer"
    /\ LET pointerData == procs.r.pointerData
           dataFileId == pointerData.text.v
       IN  procs' =
             IF pointerData.isEnc THEN ReceiptDone("Error", NoBody)
             ELSE IF ~(pointerData.text.t = "id" /\ dataFileId \in DOMAIN store)
             THEN ReceiptDone(StorageError("read"), NoBody)
             ELSE LET encryptedData == store[dataFileId]
                  IN  IF ~(encryptedData.isEnc
                           /\ decryptOk(LinkDek, encryptedData.ciphertext, encryptedData.iv,
                                        NoExp))
                      THEN ReceiptDone("DecryptionError", NoBody)
                      ELSE ReceiptDone("ok", decryptData(LinkDek, encryptedData.ciphertext,
                                                         encryptedData.iv, NoExp))
    /\ UNCHANGED <<now, links, files, store, rndCtr, last>>

InterleaveNext ==
    \/ \E p \in Updaters : U_create(p)
    \/ \E p \in Updaters : U_update(p)
    \/ R_readPointer
    \/ R_readData

\* ------------------------------------- interleaved creations on one backend
\* two creations are about to start, each a createShareLink in cloud mode or
\* a createDynamicLink, without expiry; uploadHandler and the adapter store
\* into the same backend, which returns the next free identifier
CreateKinds == {"share", "dynamic"}
InitCreates ==
    \E k1 \in CreateKinds, k2 \in CreateKinds, d1 \in Payloads, d2 \in Payloads,
       p1 \in CreatePasswords, p2 \in CreatePasswords :
       /\ now = MsPerDay
       /\ links = <<>>
       /\ files = <<ForeignContent>>
       /\ store = <<ForeignContent>>
       /\ rndCtr = 0
       /\ last = NoLast
       /\ procs = [NoProcs EXCEPT
                     !.c = [p \in Creators |->
                              [IdleCreate EXCEPT !.pc = "start",
                                                 !.kind = IF p = "c1" THEN k1 ELSE k2,
                                                 !.data = IF p = "c1" THEN d1 ELSE d2,
                                                 !.password = IF p = "c1" THEN p1 ELSE p2]]]

\* const dek = await generateDek()
C_generateDek(p) ==
    /\ procs.c[p].pc = "start"
    /\ procs' = [procs EXCEPT !.c[p].pc = "dek", !.c[p].rnd.dek = rndCtr + 1]
    /\ rndCtr' = rndCtr + 1
    /\ UNCHANGED <<now, links, files, store, last>>

\* await encryptData(dek, data): the IV of the payload is drawn
C_encryptData(p) ==
    /\ procs.c[p].pc = "dek"
    /\ procs' = [procs EXCEPT !.c[p].pc = "encrypted", !.c[p].rnd.iv1 = rndCtr + 1]
    /\ rndCtr' = rndCtr + 1
    /\ UNCHANGED <<now, links, files, store, last>>

\* await uploadHandler(uploadData) / await adapter.create(encData)
C_storeData(p) ==
    /\ procs.c[p].pc = "encrypted"
    /\ LET c == procs.c[p]
           encData == encryptData(DekKey(c.rnd.dek), Raw(c.data), NoExp, c.rnd.iv1)
       IN  store' = Append(store, EncContent(encData))
    /\ procs' = [procs EXCEPT !.c[p].pc = "stored", !.c[p].fileId = Len(store) + 1]
    /\ UNCHANGED <<now, links, files, rndCtr, last>>

\* mutant: the pointer record names the newest record of the backend
C_createPointer_newest(p) ==
    /\ procs.c[p].pc = "stored" /\ procs.c[p].kind = "dynamic"
    /\ store' = Append(store, TextContent(IdText(Len(store))))
    /\ procs' = [procs EXCEPT !.c[p].pc = "pointed", !.c[p].pointerFileId = Len(store) + 1]
    /\ UNCHANGED <<now, links, files, rndCtr, last>>

\* await adapter.create(pointerContent), the pointer naming the data record
\* this call created
C_createPointer(p) ==
    /\ procs.c[p].pc = "stored" /\ procs.c[p].kind = "dynamic"
    /\ store' = Append(store, TextContent(IdText(procs.c[p].fileId)))
    /\ procs' = [procs EXCEPT !.c[p].pc = "pointed", !.c[p].pointerFileId = Len(store) + 1]
    /\ UNCHANGED <<now, links, files, rndCtr, last>>

\* await encryptData(dek, encodedId): the IV of the link payload is drawn
C_encryptId(p) ==
    /\ \/ procs.c[p].pc = "stored" /\ procs.c[p].kind = "share"
       \/ procs.c[p].pc = "pointed"
    /\ procs' = [procs EXCEPT !.c[p].pc = "idEncrypted", !.c[p].rnd.iv2 = rndCtr + 1]
    /\ rndCtr' = rndCtr + 1
    /\ UNCHANGED <<now, links, files, store, last>>

\* the rest of the creation: the salt and the IV of the key wrapping are
\* drawn when there is a password, the link is put together (and handed to
\* shortenUrlHandler by createShareLink) and returned
C_return(p) ==
    /\ procs.c[p].pc = "idEncrypted"
    /\ LET c == procs.c[p]
           usePw == ~Falsy(c.password)
           rnd == IF usePw THEN [c.rnd EXCEPT !.salt = rndCtr + 1, !.iv3 = rndCtr + 2]
                  ELSE c.rnd
           dek == DekKey(rnd.dek)
           id == IF c.kind = "share" THEN c.fileId ELSE c.pointerFileId
           enc == encryptData(dek, IdText(id), NoExp, rnd.iv2)
           salt == IF usePw THEN arrayBufferToBase64(rnd.salt) ELSE AbsentNum
           encDek == encryptData(generateKek(c.password, rnd.salt), RawDek(rnd.dek), NoExp,
                                 rnd.iv3)
           keyString == IF usePw THEN wrappedKeyString(encDek) ELSE exportKeyToString(dek)
           hash == [NoHash EXCEPT !.i = arrayBufferToBase64(enc.iv), !.k = keyString,
                                  !.s = salt,
                                  !.m = IF c.kind = "share" THEN "c" ELSE "d"]
           search == [NoSearch EXCEPT !.p = arrayBufferToBase64(enc.ciphertext)]
       IN  /\ links' = Append(links,
                              [flow |-> IF c.kind = "share" THEN "static" ELSE "dynamic",
                               location |-> [search |-> search, hash |-> hash],
                               data |-> c.data,
                               mode |-> IF c.kind = "share" THEN "cloud" ELSE "dynamic",
                               password |-> c.password,
                               pointerFileId |-> c.pointerFileId, key |-> keyString,
                               salt |-> salt, cur |-> c.data, nUpd |-> 0, proper |-> TRUE,
                               nTry |-> 0, hist |-> {c.data}])
           /\ procs' = [procs EXCEPT !.c[p].pc = "done", !.c[p].rnd = rnd,
                                     !.c[p].link = Len(links) + 1]
           /\ rndCtr' = IF usePw THEN rndCtr + 2 ELSE rndCtr
    /\ UNCHANGED <<now, files, store, last>>

CreatesNext ==
    \/ \E p \in Creators : C_generateDek(p)
    \/ \E p \in Creators : C_encryptData(p)
    \/ \E p \in Creators : C_storeData(p)
    \/ \E p \in Creators : C_createPointer(p)
    \/ \E p \in Creators : C_encryptId(p)
    \/ \E p \in Creators : C_return(p)

\* the texts a link can carry as m or mode (none, the mode tags, the mode
\* words, other texts) and the salts generateKek can be handed (none, an
\* empty byte array, 16 bytes)
ModeTexts ==
    {"", "s", "c", "d", "simple", "cloud", "dynamic", "x", "Simple"} \cup ObjectPrototypeNames
SaltInputs == {[given |-> FALSE, len |-> 0], [given |-> TRUE, len |-> 0],
               [given |-> TRUE, len |-> 16]}

\* the link with key and iv whose fragment has the given m and mode
ModeLocation(m, mode) ==
    [NoLocation EXCEPT !.hash.k = exportKeyToString(DekKey(1)),
                       !.hash.i = arrayBufferToBase64(1),
                       !.hash.m = m, !.hash.mode = mode]

\* parseShareUrl applied to a link
ParseShareUrl(m, mode) ==
    /\ last' = [NoLast EXCEPT !.op = "parseShareUrl", !.args = <<m, mode>>,
                              !.status = "ok",
                              !.mode = parseShareUrl(ModeLocation(m, mode)).mode]
    /\ UNCHANGED <<now, links, files, store, rndCtr, procs>>

\* generateKek applied to a password and a salt: the argument check, then
\* argon2.hash
GenerateKek(password, salt) ==
    /\ \E hashOk \in {salt.len > 0} \cup {FALSE} :
          last' = [NoLast EXCEPT !.op = "generateKek", !.pw = password, !.args = <<salt>>,
                                 !.status = IF generateKekThrows(password, salt) \/ ~hashOk
                                            THEN "Error" ELSE "ok",
                                 !.calls = IF generateKekThrows(password, salt) THEN <<>>
                                           ELSE <<"argon2">>]
    /\ UNCHANGED <<now, links, files, store, rndCtr, procs>>

\* the pure functions applied to inputs drawn from bounded sets
PureNext ==
    \/ \E m \in ModeTexts, mode \in ModeTexts : ParseShareUrl(m, mode)
    \/ \E password \in PasswordInputs, salt \in SaltInputs : GenerateKek(password, salt)

\* the passwords a creation is called with: none, the empty string, a
\* password; the lifetimes in ms the earlier version is called with: none,
\* 1 ms, a day
FormPasswords == {"null", "", "pw1"}
ExpiresInInputs == {0, 1, MsPerDay}

\* links of the current and of the earlier version, created with the default
\* size limit and a working shortener, received as created, without their
\* payload or with a damaged key field
FormsNext ==
    \/ Tick
    \/ \E data \in Payloads, mode \in {"simple", "cloud"}, password \in FormPasswords,
          expiresInDays \in ExpiresInDaysInputs :
          CreateShare(data, mode, password, expiresInDays,
                      DEFAULT_SIMPLE_MODE_PAYLOAD_LIMIT, TRUE)
    \/ \E data \in Payloads, password \in FormPasswords,
          expiresInDays \in ExpiresInDaysInputs :
          CreateDynamic(data, password, expiresInDays, 0)
    \/ \E data \in Payloads, mode \in {"simple", "cloud"}, password \in FormPasswords,
          expiresIn \in ExpiresInInputs :
          CreateLegacy(data, mode, password, expiresIn)
    \/ \E i \in DOMAIN links, tamper \in FormTampers, promptPw \in PasswordInputs :
          ReceiveShared(i, tamper, promptPw, DefaultEnv, NoAdv)
    \/ \E i \in DOMAIN links, tamper \in FormTampers, promptPw \in PasswordInputs :
          ReceiveDynamic(i, tamper, promptPw, DefaultEnv, 0, NoAdv)

Spec == Init /\ [][Next]_vars
SpecForms == Init /\ [][FormsNext]_vars
SpecCreates == InitCreates /\ [][CreatesNext]_vars
SpecPure == Init /\ [][PureNext]_vars
SpecInterleave == InitInterleave /\ [][InterleaveNext]_vars
SpecStorage == Init /\ [][StorageNext]_vars
SpecStatic == Init /\ [][StaticNext]_vars
SpecDynamic == Init /\ [][DynamicNext]_vars

\* ----------------------------------------------------------- properties
ReceiveOps == {"receiveSharedData", "receiveDynamicData"}

\* the link the last operation was about
L == links[last.link]
LinkX == L.location.hash.x
Salted == Truthy(L.location.hash.s)

\* the prompt (or the caller of an update) supplies the password the link
\* was created with; a link without salt asks for none
RightPassword == Salted => last.pw = L.password

\* the last operation is a receipt of a link exactly as it was created, every
\* option supplied, the history object working
PlainReceipt(op) ==
    /\ last.op = op /\ last.tamper = NoTamper /\ last.env = DefaultEnv
    /\ last.failAt = 0 /\ last.adv = NoAdv

\* the receipt of location in the environment env, at the clock, with the
\* password and over the storage of the last operation
ReceiptOf(location, env) ==
    IF last.op = "receiveSharedData"
    THEN receiveSharedData(location, last.t, last.pw, files, env.missing # "handler",
                           env.missing # "prompt", env.history)
    ELSE receiveDynamicData(location, last.t, last.pw, store, env.missing # "handler",
                            env.missing # "prompt", env.history, 0)

\* what the receipt of the unmodified link would have been, same clock,
\* same password, same storage, same environment
Untampered == ReceiptOf(L.location, last.env)

\* C1: static round trip.  A link made by createShareLink in simple or cloud
\* mode, with or without password, with or without expiry, received
\* unmodified with the creation password no later than the end of its expiry
\* day, yields exactly the payload it was created from.
C1_StaticRoundTrip ==
    (/\ PlainReceipt("receiveSharedData")
     /\ L.mode \in {"simple", "cloud"}
     /\ RightPassword
     /\ LinkX.fmt = "date" => last.t <= LinkX.v * MsPerDay + EndOfDayMs)
    => last.status = "ok" /\ last.out = Raw(L.data)

C1_Witness ==
    /\ PlainReceipt("receiveSharedData")
    /\ L.mode = "cloud" /\ Salted /\ LinkX.fmt = "date" /\ L.data = 2
    /\ last.status = "ok" /\ last.out = Raw(2)

\* C2: dynamic round trip.  A link made by createDynamicLink without expiry,
\* with or without password, not updated since, received unmodified over the
\* same storage with the creation password, yields exactly its payload.
C2_DynamicRoundTrip ==
    (/\ PlainReceipt("receiveDynamicData")
     /\ RightPassword
     /\ LinkX.fmt = "none"
     /\ L.nUpd = 0)
    => last.status = "ok" /\ last.out = Raw(L.data)

C2_Witness ==
    /\ PlainReceipt("receiveDynamicData")
    /\ Salted /\ LinkX.fmt = "none" /\ L.nUpd = 0 /\ L.data = 2
    /\ last.status = "ok" /\ last.out = Raw(2)

\* C3: after one or more successful updates made with the pointer identifier,
\* key and salt the creation returned, a receipt through the original link
\* yields the payload of the most recent update.
C3_LatestUpdate ==
    (/\ PlainReceipt("receiveDynamicData")
     /\ RightPassword
     /\ LinkX.fmt = "none"
     /\ L.nUpd > 0
     /\ L.proper)
    => last.status = "ok" /\ last.out = Raw(L.cur)

C3_Witness ==
    /\ PlainReceipt("receiveDynamicData")
    /\ L.nUpd = 2 /\ L.proper /\ L.cur # L.data /\ Salted
    /\ last.status = "ok" /\ last.out = Raw(L.cur)

\* C4 as stated: the pointer identifier is required and sufficient for an
\* update: without it the update fails, with it (and a new payload, the
\* adapter, which works, and, for a salted link, the creation password) the
\* update succeeds whatever else the caller kept from creation.
C4_PointerIdSuffices ==
    (last.op = "updateDynamicLink" /\ RightPassword /\ last.failAt = 0)
    => (last.status = "ok" <=> last.ptrGiven)

\* C4 amended: the pointer identifier is required but not sufficient.  An
\* update without it fails; an update without the key string fails; an update
\* with the pointer identifier, the key and salt returned at creation and,
\* for a salted link, the creation password succeeds when the storage
\* adapter works.
C4_PointerIdAndKey ==
    last.op = "updateDynamicLink" =>
        /\ ~last.ptrGiven => last.status = "Error"
        /\ last.keyFrom = 0 => last.status = "Error"
        /\ (last.ptrGiven /\ last.keyFrom = last.link /\ RightPassword /\ last.failAt = 0)
           => last.status = "ok"

C4_Witness ==
    /\ last.op = "updateDynamicLink"
    /\ last.ptrGiven /\ last.keyFrom = last.link /\ Salted /\ last.pw = L.password
    /\ last.status = "ok"

\* C5: a receipt of a link whose embedded ciphertext or IV was changed never
\* returns a payload, and where the unmodified link would have been received
\* it fails with DecryptionError.
C5_TamperedCiphertextOrIv ==
    (last.op \in ReceiveOps /\ last.tamper.kind \in {"ct", "iv"}) =>
        /\ last.status # "ok"
        /\ Untampered.status = "ok" => last.status = "DecryptionError"

C5_Witness ==
    /\ last.op = "receiveSharedData" /\ last.tamper.kind = "iv"
    /\ L.mode = "cloud" /\ Salted
    /\ Untampered.status = "ok"
    /\ last.status = "DecryptionError"

\* every ciphertext made for link i carries the link's expiry string as AAD
BoundToExpiry(i) ==
    LET loc == links[i].location
        ep == IF loc.search.data.present THEN loc.search.data ELSE loc.search.p
        ct == base64ToArrayBuffer(ep)
    IN  /\ ct.aad = loc.hash.x
        /\ ct.body.t = "id" => files[ct.body.v].ciphertext.aad = loc.hash.x

\* C6 as stated: an expiring static link whose expiry field is replaced by
\* any other value, or removed, fails with DecryptionError.
C6_ChangedExpiryIsDecryptionError ==
    (/\ last.op = "receiveSharedData"
     /\ last.tamper.kind = "x"
     /\ LinkX.fmt = "date" /\ last.tamper.x # LinkX
     /\ Untampered.status = "ok")
    => last.status = "DecryptionError"

\* C6 amended: the ciphertexts of an expiring static link are bound to its
\* expiry string, and a receipt of a copy whose expiry field was replaced or
\* removed never returns the payload: it fails with ExpiredLinkError when the
\* substituted value is a date whose day is already over (the expiry check
\* comes first), and otherwise, where the unmodified link would have been
\* received, with DecryptionError.
C6_ChangedExpiryFails ==
    /\ \A i \in DOMAIN links : links[i].flow = "static" => BoundToExpiry(i)
    /\ (/\ last.op = "receiveSharedData"
        /\ last.tamper.kind = "x"
        /\ LinkX.fmt = "date" /\ last.tamper.x # LinkX)
       => /\ last.status # "ok"
          /\ IF last.tamper.x.fmt = "date"
                /\ last.t > last.tamper.x.v * MsPerDay + EndOfDayMs
             THEN last.status = "ExpiredLinkError"
             ELSE Untampered.status = "ok" => last.status = "DecryptionError"

C6_Witness ==
    /\ last.op = "receiveSharedData"
    /\ last.tamper = [kind |-> "x", x |-> NoExp]
    /\ LinkX.fmt = "date" /\ L.mode = "cloud"
    /\ Untampered.status = "ok"
    /\ last.status = "DecryptionError"

\* C7: an expiring dynamic link whose x field is replaced or removed is never
\* received.
C7_DynamicExpiryBound ==
    (/\ last.op = "receiveDynamicData"
     /\ last.tamper.kind = "x"
     /\ LinkX.fmt = "date" /\ last.tamper.x # LinkX)
    => last.status # "ok"

\* C8: a static link with expiry date D is received at every instant up to
\* D 23:59:59.999 UTC and fails with ExpiredLinkError from D+1 00:00:00.000.
C8_StaticExpiryBoundary ==
    (PlainReceipt("receiveSharedData") /\ LinkX.fmt = "date") =>
        /\ (/\ last.t <= LinkX.v * MsPerDay + EndOfDayMs
            /\ L.mode \in {"simple", "cloud"}
            /\ RightPassword)
           => last.status = "ok" /\ last.out = Raw(L.data)
        /\ last.t >= (LinkX.v + 1) * MsPerDay => last.status = "ExpiredLinkError"

C8_Witness ==
    /\ PlainReceipt("receiveSharedData") /\ LinkX.fmt = "date"
    /\ last.t = LinkX.v * MsPerDay + EndOfDayMs
    /\ last.status = "ok"

\* C9: a dynamic link with expiry date D is received at every instant up to
\* D 23:59:59.999 UTC and fails with ExpiredLinkError from D+1 00:00:00.000.
C9_DynamicExpiryBoundary ==
    (PlainReceipt("receiveDynamicData") /\ LinkX.fmt = "date") =>
        /\ (/\ last.t <= LinkX.v * MsPerDay + EndOfDayMs
            /\ RightPassword
            /\ L.proper)
           => last.status = "ok" /\ last.out = Raw(L.cur)
        /\ last.t >= (LinkX.v + 1) * MsPerDay => last.status = "ExpiredLinkError"

Has(calls, e) == \E n \in DOMAIN calls : calls[n] = e

\* C10: when the password prompt of a receipt returns null or the empty
\* string, the receipt fails with PasswordRequiredError and has derived no
\* KEK, attempted no decryption and called neither the download handler nor
\* the storage adapter.
C10_PasswordRequired ==
    (/\ last.op \in ReceiveOps /\ Has(last.calls, "prompt") /\ last.pw \in {"null", ""}
     /\ last.env.history # "throws") =>
        /\ last.status = "PasswordRequiredError"
        /\ \A e \in {"kek", "decrypt", "download", "read"} : ~Has(last.calls, e)

C10_Witness ==
    /\ last.op = "receiveDynamicData" /\ Salted /\ last.pw = ""
    /\ Has(last.calls, "prompt")
    /\ last.status = "PasswordRequiredError"

\* the expiry field the receiver reads
EffectiveX == IF last.tamper.kind = "x" THEN last.tamper.x ELSE LinkX

Count(calls, e) == Cardinality({n \in DOMAIN calls : calls[n] = e})

\* C11: a link rewritten to the long-form names and the full-word mode parses
\* to the same structure as the short-form link, and receiveSharedData gives
\* the same outcome, payload included, for both.
C11_LegacyParsingEquivalence ==
    /\ \A i \in DOMAIN links :
          parseShareUrl(LongForm(links[i].location)) = parseShareUrl(links[i].location)
    /\ (last.op = "receiveSharedData" /\ last.tamper.kind = "long") =>
          /\ last.status = Untampered.status
          /\ last.out = Untampered.out

C11_Witness ==
    /\ last.op = "receiveSharedData" /\ last.tamper.kind = "long"
    /\ L.mode = "cloud" /\ Salted /\ LinkX.fmt = "date"
    /\ last.status = "ok" /\ last.out = Raw(L.data)

\* the length of the base64 form of the encrypted gzip of a payload
EncodedLength(data) == base64Length(gzipLength(data) + 16)

\* C12: createShareLink in simple mode fails with PayloadTooLargeError exactly
\* when the base64 form of the encrypted payload is longer than the limit, and
\* then neither uploadHandler nor shortenUrlHandler has been called; a length
\* equal to the limit is accepted; no other mode fails with that error,
\* however small the limit.
C12_SizeCap ==
    last.op = "createShareLink" =>
        /\ (last.mode = "simple" /\ EncodedLength(last.data) > last.limit) =>
              /\ last.status = "PayloadTooLargeError"
              /\ ~Has(last.calls, "upload") /\ ~Has(last.calls, "shorten")
              /\ last.sent = <<>>
        /\ (last.mode = "simple" /\ EncodedLength(last.data) <= last.limit /\ last.shortenOk) =>
              last.status = "ok"
        /\ last.mode # "simple" => last.status # "PayloadTooLargeError"
        /\ (last.mode = "cloud" /\ last.shortenOk) => last.status = "ok"

C12_Witness ==
    /\ last.op = "createShareLink" /\ last.mode = "simple"
    /\ last.limit = DEFAULT_SIMPLE_MODE_PAYLOAD_LIMIT
    /\ EncodedLength(last.data) > last.limit
    /\ last.status = "PayloadTooLargeError"

C14_ExpiryCheckedFirst ==
    (/\ last.op \in ReceiveOps
     /\ last.env.missing = "none" /\ last.env.history # "throws"
     /\ parseShareUrl(Tampered(L.location, last.tamper)).match
     /\ EffectiveX.fmt = "date"
     /\ last.t > EffectiveX.v * MsPerDay + EndOfDayMs)
    => /\ last.status = "ExpiredLinkError"
       /\ \A e \in {"prompt", "kek", "decrypt", "download", "read"} : ~Has(last.calls, e)
       /\ last.sent = <<>>

C14_Witness ==
    /\ last.op = "receiveSharedData" /\ last.tamper = NoTamper
    /\ Salted /\ L.mode = "cloud"
    /\ last.t > LinkX.v * MsPerDay + EndOfDayMs
    /\ last.status = "ExpiredLinkError" /\ last.calls = <<"scrub">>

\* C15: where there is a history object, every receipt, returning or failing
\* with whatever error, has asked for the history record to be scrubbed.
C15_ScrubOnEveryExit ==
    (last.op \in ReceiveOps /\ last.env.history # "undefined") => Has(last.calls, "scrub")

\* C16: when the scrub request throws, the receipt still has the outcome it
\* has when the scrub request works: the same payload, or the same error.
C16_ScrubFailureDoesNotMask ==
    (last.op \in ReceiveOps /\ last.env.history = "throws") =>
        LET r == ReceiptOf(Tampered(L.location, last.tamper), DefaultEnv)
        IN  last.status = r.status /\ last.out = r.out

\* C17: when shortenUrlHandler fails, createShareLink still returns a link.
C17_ShortenerFallback ==
    (last.op = "createShareLink" /\ Has(last.calls, "shorten") /\ ~last.shortenOk) =>
        last.status = "ok"

\* C18: every call derives a KEK at most once: a creation exactly once when
\* it is given a password and no storage call fails before that step; a receipt exactly once when it has prompted and
\* got a non-empty password, whether that password is right or wrong; an
\* update exactly once when it is given pointer, key, salt and a non-empty
\* password; zero times otherwise.
C18_KekAtMostOnce ==
    /\ Count(last.calls, "kek") <= 1
    /\ last.op \in {"createShareLink", "createDynamicLink"} =>
          (Count(last.calls, "kek") = 1 <=> (last.pw \in Passwords /\ last.failAt = 0))
    /\ last.op \in ReceiveOps =>
          (Count(last.calls, "kek") = 1 <=> (Has(last.calls, "prompt") /\ last.pw \in Passwords))
    /\ last.op = "updateDynamicLink" =>
          (Count(last.calls, "kek") = 1 <=>
              (/\ last.ptrGiven /\ last.keyFrom # 0
               /\ Truthy(SaltArg(last.keyFrom)) /\ last.pw \in Passwords))

C18_Witness ==
    /\ last.op = "receiveSharedData" /\ last.tamper = NoTamper
    /\ Salted /\ last.pw \in Passwords /\ last.pw # L.password
    /\ last.status = "DecryptionError"
    /\ Count(last.calls, "kek") = 1

\* the names of the parameters present in the query and in the fragment
QueryNames(location) == {n \in {"data", "p", "epayload"} : location.search[n].present}
FragmentNames(location) ==
    {n \in {"k", "key"} : location.hash[n].present}
    \cup {n \in {"i", "iv", "s", "salt"} : location.hash[n].present}
    \cup {n \in {"m", "mode"} : location.hash[n] # ""}
    \cup {n \in {"x", "expdate"} : location.hash[n].fmt # "none"}

IsCiphertext(ct) == ct.key.k \in {"dek", "kek"}
ContentOpaque(c) ==
    \/ c = NoContent
    \/ c.isEnc /\ IsCiphertext(c.ciphertext)
    \/ ~c.isEnc /\ c.text.t = "id"
TextOpaque(body) == body.t \in {"none", "id"}
UrlOpaque(url) ==
    /\ url.hash = NoHash
    /\ \A n \in {"data", "p", "epayload"} :
          url.search[n].present => IsCiphertext(url.search[n].b64)
Opaque(msg) == ContentOpaque(msg.content) /\ TextOpaque(msg.text) /\ UrlOpaque(msg.url)

Drop(location, dropKey, dropIv) ==
    [location EXCEPT !.hash.k = IF dropKey THEN AbsentKey ELSE @,
                     !.hash.key = IF dropKey THEN AbsentKey ELSE @,
                     !.hash.i = IF dropIv THEN AbsentNum ELSE @,
                     !.hash.iv = IF dropIv THEN AbsentNum ELSE @]

FirstPresent(a, b, c) ==
    IF a.present THEN a ELSE IF b.present THEN b ELSE IF c.present THEN c ELSE AbsentCt

otherCt(text) == [text EXCEPT !.b64.iv = @ + 1000]

\* C22: for simple mode the payload is the first non-empty of data, p,
\* epayload; for cloud and dynamic mode the first non-empty of p, epayload,
\* data; the empty text when none is there.  A link that carries corrupted
\* copies of its payload under the names its mode ranks lower is received as
\* the link itself is.
C22_PayloadResolution ==
    /\ \A i \in DOMAIN links :
          \A m \in {"s", "c", "d"}, hasData \in BOOLEAN, hasP \in BOOLEAN, hasE \in BOOLEAN :
             LET v == parseShareUrl(links[i].location).epayload
                 q == [data |-> IF hasData THEN v ELSE AbsentCt,
                       p |-> IF hasP THEN flipBit(v) ELSE AbsentCt,
                       epayload |-> IF hasE THEN otherCt(v) ELSE AbsentCt]
                 r == parseShareUrl([search |-> q,
                                     hash |-> [links[i].location.hash EXCEPT !.m = m]])
             IN  r.epayload = IF m = "s" THEN FirstPresent(q.data, q.p, q.epayload)
                              ELSE FirstPresent(q.p, q.epayload, q.data)
    /\ (/\ last.op \in ReceiveOps /\ last.tamper.kind = "decoy"
        /\ L.mode \in {"simple", "cloud", "dynamic"})
       => last.status = Untampered.status /\ last.out = Untampered.out

C22_Witness ==
    /\ last.op = "receiveSharedData" /\ last.tamper.kind = "decoy"
    /\ L.mode = "cloud"
    /\ QueryNames(Tampered(L.location, last.tamper)) = {"data", "p", "epayload"}
    /\ last.status = "ok" /\ last.out = Raw(L.data)

\* the storage calls of the last operation, in order
StorageCalls == SelectSeq(last.calls, LAMBDA e : e \in {"create", "read", "update"})

\* C23: when a call of the storage adapter fails inside createDynamicLink,
\* receiveDynamicData or updateDynamicLink, the operation fails with an error
\* whose message names the failed call and carries the adapter's message,
\* the failed call is the last storage call made, and nothing of the flow
\* runs after it: no further encryption or decryption, no link and no
\* payload is produced.
C23_StorageFailureSurfaces ==
    (last.op \in {"createDynamicLink", "receiveDynamicData", "updateDynamicLink"}
     /\ last.failAt # 0 /\ Len(StorageCalls) >= last.failAt)
    => LET failed == StorageCalls[last.failAt]
           n == CHOOSE k \in DOMAIN last.calls :
                   /\ last.calls[k] = failed
                   /\ Count(SubSeq(last.calls, 1, k), failed)
                        = Count(SubSeq(StorageCalls, 1, last.failAt), failed)
           after == SubSeq(last.calls, n + 1, Len(last.calls))
       IN  /\ last.status = ("Storage adapter failed during '" \o failed) \o "': Not found"
           /\ Len(StorageCalls) = last.failAt
           /\ Len(last.sent) = last.failAt
           /\ after = IF last.op = "receiveDynamicData" THEN <<"scrub">> ELSE <<>>
           /\ last.out = NoBody
           /\ last.op = "createDynamicLink" => last.link = 0

C23_Witness ==
    /\ last.op = "updateDynamicLink" /\ last.failAt = 2
    /\ last.status = "Storage adapter failed during 'update': Not found"
    /\ StorageCalls = <<"create", "update">>

\* C24: whatever the storage backend answers to downloadHandler or
\* adapter.read (the stored record, a modified record, another record of the
\* backend, stale or foreign), a receipt either fails and returns nothing, or
\* returns a payload that was encrypted under this link's key at creation or
\* by an update: never an identifier, compressed bytes or the data of another
\* share.
C24_NoDegradedSuccess ==
    last.op \in ReceiveOps =>
        \/ last.status # "ok" /\ last.out = NoBody
        \/ last.status = "ok" /\ last.out \in {Raw(p) : p \in L.hist}

C24_Witness ==
    /\ last.op = "receiveDynamicData" /\ last.adv.kind = "data"
    /\ L.nUpd > 0 /\ L.cur # L.data
    /\ last.status = "ok" /\ last.out = Raw(L.data)

\* the link's expiry day, if it has one, is not over at the receipt
InTime == LinkX.fmt = "date" => last.t <= LinkX.v * MsPerDay + EndOfDayMs

\* C25 as stated: createShareLink called without a mode behaves as simple
\* mode: it does not call uploadHandler, it embeds the compressed and
\* encrypted payload in the link, and the link is received back to the
\* original payload.
C25_DefaultModeIsSimple ==
    /\ (last.op = "createShareLink" /\ last.mode = "undefined" /\ last.status = "ok") =>
          /\ ~Has(last.calls, "upload")
          /\ base64ToArrayBuffer(parseShareUrl(L.location).epayload).body = gzip(Raw(L.data))
    /\ (PlainReceipt("receiveSharedData") /\ L.mode = "undefined" /\ RightPassword /\ InTime) =>
          last.status = "ok" /\ last.out = Raw(L.data)

\* the mode tag createShareLink and createDynamicLink write for a mode
ModeTag(mode) == CASE mode = "simple" -> "s" [] mode = "cloud" -> "c" [] mode = "dynamic" -> "d"

\* C26: a link created in simple, cloud or dynamic mode carries m = s, c or d
\* and parses back to the mode it was created in; a receipt of it that
\* succeeds has taken the path of that mode: simple mode decrypts the
\* embedded payload and decompresses it without any download, cloud mode
\* decrypts the embedded identifier and downloads that one file, dynamic
\* mode reads the pointer record and then the data record from the adapter.
C26_ModeTagConsistency ==
    /\ \A i \in DOMAIN links :
          links[i].mode \in {"simple", "cloud", "dynamic"} =>
             /\ links[i].location.hash.m = ModeTag(links[i].mode)
             /\ parseShareUrl(links[i].location).mode = links[i].mode
    /\ (/\ last.op \in ReceiveOps /\ last.tamper = NoTamper /\ last.status = "ok"
        /\ L.mode \in {"simple", "cloud", "dynamic"})
       => /\ L.mode = "simple" =>
                /\ last.sent = <<>>
                /\ base64ToArrayBuffer(L.location.search.data).body = gzip(last.out)
          /\ L.mode = "cloud" =>
                /\ Len(last.sent) = 1 /\ last.sent[1].to = "download"
                /\ last.sent[1].text = base64ToArrayBuffer(L.location.search.p).body
          /\ L.mode = "dynamic" =>
                /\ Len(last.sent) = 2
                /\ last.sent[1].to = "read" /\ last.sent[2].to = "read"
                /\ last.sent[1].text = base64ToArrayBuffer(L.location.search.p).body

C26_Witness ==
    /\ PlainReceipt("receiveDynamicData") /\ L.mode = "dynamic"
    /\ L.location.hash.m = "d" /\ parseShareUrl(L.location).mode = "dynamic"
    /\ last.status = "ok" /\ Len(last.sent) = 2

\* the ciphertexts a sequence of records holds
CiphertextsOf(st) == {st[k].ciphertext : k \in {n \in DOMAIN st : st[n].isEnc}}

\* every ciphertext the flows have produced: the stored records, the payload
\* and the wrapped key of each link, and what the last operation handed to a
\* storage backend
Ciphertexts ==
    CiphertextsOf(store) \cup CiphertextsOf(files)
    \cup {base64ToArrayBuffer(parseShareUrl(links[i].location).epayload) : i \in DOMAIN links}
    \cup {base64ToArrayBuffer(links[i].key.c) : i \in {n \in DOMAIN links : links[n].key.dot}}
    \cup {last.sent[n].content.ciphertext :
             n \in {k \in DOMAIN last.sent : last.sent[k].content.isEnc}}

C28_UpdateFrame ==
    [][(last'.op = "updateDynamicLink" /\ last'.status = "ok") =>
          LET i == last'.link
              ptr == links[i].pointerFileId
              new == Len(store) + 1
          IN  /\ Count(last'.calls, "create") = 1 /\ Count(last'.calls, "update") = 1
              /\ Len(last'.sent) = 2
              /\ last'.sent[1].to = "create" /\ last'.sent[1].content.isEnc
              /\ last'.sent[2].to = "update" /\ last'.sent[2].text = IdText(ptr)
              /\ last'.sent[2].content = TextContent(IdText(new))
              /\ Len(store') = new
              /\ store'[new] = last'.sent[1].content
              /\ store'[ptr] = TextContent(IdText(new))
              /\ \A k \in DOMAIN store : k # ptr => store'[k] = store[k]
              /\ links'[i].location = links[i].location
              /\ links'[i].pointerFileId = ptr
              /\ links'[i].key = links[i].key /\ links'[i].salt = links[i].salt
              /\ base64ToArrayBuffer(links'[i].location.search.p).body = IdText(ptr)]_vars

C28_Witness ==
    /\ last.op = "updateDynamicLink" /\ last.status = "ok"
    /\ L.nUpd = 2 /\ Len(store) = 5
    /\ store[L.pointerFileId] = TextContent(IdText(5))
    /\ store[2].isEnc /\ store[4].isEnc

\* the receipt of link i with its own password over the storage st
ReceiptOver(i, st) ==
    receiveDynamicData(links[i].location, now, links[i].password, st, TRUE, TRUE, "ok", 0)

\* C29: an updateDynamicLink that fails at adapter.create or at
\* adapter.update leaves every record the storage held, the pointer record
\* included, as it was, so that a receipt through the link gives what it gave
\* before; a failure at adapter.create stores nothing, and after a failure at
\* adapter.update the data record just created is still in storage.  A link
\* without expiry that has seen a failed update is received, with its
\* password, to the payload of its last successful update or creation.
C29_FailedUpdateLeavesLinkIntact ==
    /\ [][(/\ last'.op = "updateDynamicLink" /\ last'.failAt # 0
            /\ Count(last'.calls, "create") + Count(last'.calls, "update") >= last'.failAt) =>
             LET i == last'.link
                 new == Len(store) + 1
             IN  /\ last'.status # "ok"
                 /\ \A k \in DOMAIN store : store'[k] = store[k]
                 /\ links'[i].cur = links[i].cur
                 /\ ReceiptOver(i, store') = ReceiptOver(i, store)
                 /\ last'.failAt = 1 => store' = store
                 /\ last'.failAt = 2 =>
                       /\ Len(store') = new
                       /\ store'[new] = last'.sent[1].content
                       /\ store'[new].isEnc]_vars
    /\ []((/\ PlainReceipt("receiveDynamicData") /\ L.nTry > L.nUpd
            /\ L.proper /\ RightPassword /\ LinkX.fmt = "none")
           => last.status = "ok" /\ last.out = Raw(L.cur))

C29_Witness ==
    /\ PlainReceipt("receiveDynamicData")
    /\ L.nUpd = 1 /\ L.nTry = 2 /\ L.proper /\ L.cur # L.data
    /\ store[L.pointerFileId] = TextContent(IdText(4)) /\ Len(store) = 5
    /\ last.status = "ok" /\ last.out = Raw(L.cur)

\* C30: under every interleaving of two updateDynamicLink calls and one
\* receiveDynamicData call on one dynamic link, the storage calls atomic, the
\* receipt succeeds and returns the original payload or the payload of one
\* of the two updates, whole; and once both updates have returned, the
\* pointer record names the data record of the update whose adapter.update
\* ran last.
C30_InterleavedUpdatesAndReceipt ==
    /\ procs.r.pc = "done" =>
          /\ procs.r.status = "ok"
          /\ procs.r.out \in {Raw(links[1].data)} \cup {Raw(procs.u[p].newData) : p \in Updaters}
    /\ (\A p \in Updaters : procs.u[p].pc = "done") =>
          /\ procs.lastUpdate \in Updaters
          /\ store[links[1].pointerFileId]
                = TextContent(IdText(procs.u[procs.lastUpdate].dataFileId))
          /\ store[procs.u[procs.lastUpdate].dataFileId].ciphertext.body
                = Raw(procs.u[procs.lastUpdate].newData)

\* the receipt read the pointer before either update rewrote it and the data
\* record after both had: it returns the original payload although the
\* pointer names the record of the update that created its record first
C30_Witness ==
    /\ procs.r.pc = "done" /\ procs.r.status = "ok"
    /\ \A p \in Updaters : procs.u[p].pc = "done"
    /\ procs.u["u1"].newData # links[1].data /\ procs.u["u2"].newData # links[1].data
    /\ procs.r.out = Raw(links[1].data)
    /\ procs.lastUpdate = "u1"
    /\ procs.u["u1"].dataFileId < procs.u["u2"].dataFileId


\* the calls of the operation to its collaborators, in the order made
CollaboratorCalls ==
    SelectSeq(last.calls,
              LAMBDA e : e \in {"upload", "shorten", "prompt", "download", "create", "read",
                                "update"})

\* s is t with elements left out at its end
IsPrefix(s, t) == Len(s) <= Len(t) /\ \A n \in DOMAIN s : s[n] = t[n]

\* C32: the calls of one operation to its collaborators come one after the
\* other in a fixed order: creation in cloud mode uploads and then shortens;
\* a receipt asks for the password (salted link) and then downloads; dynamic
\* creation creates the data record and then the pointer record; a dynamic
\* receipt asks for the password (salted link), reads the pointer record and
\* then the data record; an update creates and then updates.  An operation
\* that stops early has made an initial part of that sequence, and each call
\* is handed what the one before it returned.
C32_CollaboratorCallOrder ==
    LET full ==
          CASE last.op = "createShareLink" ->
                 IF last.mode = "simple" THEN <<"shorten">> ELSE <<"upload", "shorten">>
            [] last.op = "receiveSharedData" ->
                 (IF Has(last.calls, "prompt") THEN <<"prompt">> ELSE <<>>) \o <<"download">>
            [] last.op = "createDynamicLink" -> <<"create", "create">>
            [] last.op = "receiveDynamicData" ->
                 (IF Has(last.calls, "prompt") THEN <<"prompt">> ELSE <<>>) \o <<"read", "read">>
            [] last.op = "updateDynamicLink" -> <<"create", "update">>
            [] OTHER -> <<>>
    IN  /\ IsPrefix(CollaboratorCalls, full)
        /\ (last.status = "ok" /\ last.op \in {"createShareLink", "createDynamicLink",
                                              "updateDynamicLink"}) =>
              CollaboratorCalls = full
        /\ (PlainReceipt("receiveSharedData") /\ L.mode = "cloud" /\ last.status = "ok") =>
              /\ CollaboratorCalls = (IF Salted THEN <<"prompt", "download">>
                                      ELSE <<"download">>)
              /\ last.sent[1].text.t = "id" /\ files[last.sent[1].text.v].isEnc
        /\ (PlainReceipt("receiveDynamicData") /\ last.status = "ok") =>
              /\ CollaboratorCalls = (IF Salted THEN <<"prompt", "read", "read">>
                                      ELSE <<"read", "read">>)
              /\ last.sent[1].text = IdText(L.pointerFileId)
              /\ last.sent[2].text = store[L.pointerFileId].text
        /\ (last.op = "updateDynamicLink" /\ last.status = "ok") =>
              /\ last.sent[1].to = "create" /\ last.sent[2].to = "update"
              /\ last.sent[2].content = TextContent(IdText(Len(store)))

C32_Witness ==
    /\ PlainReceipt("receiveDynamicData") /\ last.status = "ok" /\ Salted
    /\ CollaboratorCalls = <<"prompt", "read", "read">>
    /\ L.nUpd = 1


\* C38: updateDynamicLink called with the pointer identifier, key and salt of
\* a password-protected link fails with PasswordRequiredError when the
\* password is missing or empty and with DecryptionError when it is not the
\* password of the link, before any adapter.create or adapter.update: no call
\* reaches the storage, and the storage, the pointer record and the link are
\* as they were.
C38_UpdateFailsBeforeStorage ==
    [][(/\ last'.op = "updateDynamicLink" /\ last'.ptrGiven
        /\ last'.keyFrom \in DOMAIN links
        /\ Truthy(links[last'.keyFrom].salt)
        /\ last'.pw # links[last'.keyFrom].password) =>
          /\ last'.status = (IF Falsy(last'.pw) THEN "PasswordRequiredError"
                             ELSE "DecryptionError")
          /\ ~Has(last'.calls, "create") /\ ~Has(last'.calls, "update")
          /\ last'.sent = <<>>
          /\ store' = store
          /\ links' = links]_vars

C38_Witness ==
    /\ last.op = "updateDynamicLink" /\ last.ptrGiven /\ last.keyFrom = last.link
    /\ Salted /\ last.pw \in Passwords /\ last.pw # L.password
    /\ last.status = "DecryptionError" /\ last.sent = <<>>
    /\ L.nUpd = 1 /\ store[L.pointerFileId] = TextContent(IdText(4))


\* the value of m, or of mode when m is absent, or "s" when both are
RawModeOf(m, mode) == IF m # "" THEN m ELSE IF mode # "" THEN mode ELSE "s"

\* C39: parseShareUrl returns a mode from {simple, cloud, dynamic} for every
\* value of m and mode: s, c, d and the full words map to their mode, m takes
\* precedence over mode, and an absent or unrecognised value gives simple.
C39_ModeInClosedSet ==
    last.op = "parseShareUrl" =>
        LET rawMode == RawModeOf(last.args[1], last.args[2]) IN
        /\ last.mode \in {"simple", "cloud", "dynamic"}
        /\ rawMode \in {"s", "simple"} => last.mode = "simple"
        /\ rawMode \in {"c", "cloud"} => last.mode = "cloud"
        /\ rawMode \in {"d", "dynamic"} => last.mode = "dynamic"
        /\ rawMode \notin {"s", "simple", "c", "cloud", "d", "dynamic"} =>
              last.mode = "simple"

\* C40: generateKek fails, and argon2 is not run, whenever the password is
\* missing or empty or the salt is missing or an empty byte array.
C40_KekRequiresPasswordAndSalt ==
    (/\ last.op = "generateKek"
     /\ (last.pw \in {"null", ""} \/ ~last.args[1].given \/ last.args[1].len = 0)) =>
        /\ last.status # "ok"
        /\ ~Has(last.calls, "argon2")


\* C33: a receipt through a link that has its key and iv but no payload
\* parameter (no data, p or epayload) fails with InvalidLinkError, for
\* receiveSharedData and for receiveDynamicData, and has asked for no
\* password, derived no KEK and attempted no decryption.
C33_MissingPayloadIsInvalidLink ==
    (last.op \in ReceiveOps /\ last.tamper.kind = "nopayload") =>
        /\ last.status = "InvalidLinkError"
        /\ ~Has(last.calls, "prompt")
        /\ ~Has(last.calls, "kek")
        /\ ~Has(last.calls, "decrypt")


\* C34: a receipt (of a link without expiry) with a wrong password, with a
\* damaged key field or with a damaged payload ciphertext fails with
\* DecryptionError in every case; none of them is reported as an error of
\* another type.
C34_UniformDecryptionError ==
    (/\ last.op \in ReceiveOps /\ L.flow # "legacy" /\ LinkX.fmt = "none"
     /\ \/ last.tamper = NoTamper /\ Salted /\ last.pw \in Passwords /\ last.pw # L.password
        \/ /\ last.tamper.kind \in {"keyflip", "keycut", "ct"}
           /\ Salted => last.pw \in Passwords) =>
        last.status = "DecryptionError"


\* a receipt, as issued, of a link of the earlier version, with its password
\* where it has one
LegacyReceipt ==
    /\ PlainReceipt("receiveSharedData") /\ L.flow = "legacy"
    /\ Truthy(L.location.hash.salt) => last.pw = L.password
LegacyX == L.location.hash.expdate

\* C35: a link the earlier createShareLink issued (long-form names, the mode
\* as a full word, the payload in epayload) is received by receiveSharedData
\* to the payload it was created from, for every mode, with or without
\* password and expiry, as long as its expiry instant has not passed.
C35_LegacyLinksReceivable ==
    (LegacyReceipt /\ (LegacyX.fmt = "iso" => last.t <= LegacyX.v)) =>
        /\ last.status = "ok"
        /\ last.out = Raw(L.data)


\* C36: the expiry of a link is enforced whatever parseable form it has, the
\* full ISO timestamp in expdate of the earlier links included: a receipt by
\* receiveSharedData after the expiry instant fails with ExpiredLinkError.
C36_LegacyExpiryEnforced ==
    (LegacyReceipt /\ LegacyX.fmt = "iso" /\ last.t > LegacyX.v) =>
        last.status = "ExpiredLinkError"


\* links of the current version
CurrentFlows == {"static", "dynamic"}

\* C37: a link carries a salt s exactly when its creation was given a
\* non-empty password, and exactly then its k is the wrapped form
\* "<ciphertext>.<iv>", the DEK encrypted under the KEK of that password and
\* salt; k is the exported DEK only when there was no password.  The same
\* holds of the key and salt createDynamicLink returns.
C37_SaltIffPassword ==
    \A n \in DOMAIN links :
        links[n].flow \in CurrentFlows =>
            LET hash == links[n].location.hash
                usePw == links[n].password \notin {"null", ""}
            IN  /\ Truthy(hash.s) <=> usePw
                /\ hash.k.present
                /\ hash.k.dot <=> usePw
                /\ usePw =>
                      /\ hash.k.c.present /\ hash.k.i.present /\ ~hash.k.d.present
                      /\ base64ToArrayBuffer(hash.k.c).key
                            = generateKek(links[n].password, base64ToArrayBuffer(hash.s))
                      /\ base64ToArrayBuffer(hash.k.c).body.t = "dek"
                /\ ~usePw =>
                      /\ hash.k.d.present /\ ~hash.k.c.present /\ ~hash.k.i.present
                      /\ hash.k = exportKeyToString(DekKey(base64ToArrayBuffer(hash.k.d)))
                /\ links[n].flow = "dynamic" =>
                      links[n].key = hash.k /\ links[n].salt = hash.s

C37_Witness ==
    /\ last.op = "createDynamicLink" /\ last.status = "ok" /\ last.pw = ""
    /\ ~Truthy(L.salt) /\ ~L.key.dot /\ L.key.d.present
    /\ Len(links) = 1


\* the receipt of link n with its own password over the backend as it is
ReceiptOfLink(n) ==
    IF links[n].flow = "dynamic"
    THEN receiveDynamicData(links[n].location, now, links[n].password, store, TRUE, TRUE,
                            "ok", 0)
    ELSE receiveSharedData(links[n].location, now, links[n].password, store, TRUE, TRUE,
                           "ok")

\* C31: two creations (each createShareLink or createDynamicLink) over the
\* same storage backend, interleaved at their awaits in any way, each have
\* their own DEK, IVs and salt, and each returned link is received, with its
\* password, to the payload its own creation was given, never to the
\* other's, whatever the other creation has done by then.
C31_InterleavedCreations ==
    /\ \A p \in Creators :
          procs.c[p].pc = "done" =>
              LET n == procs.c[p].link IN
              /\ links[n].data = procs.c[p].data
              /\ ReceiptOfLink(n).status = "ok"
              /\ ReceiptOfLink(n).out = Raw(procs.c[p].data)
    /\ \A p \in Creators, q \in Creators :
          p # q =>
              \A f \in {"dek", "iv1", "iv2", "iv3", "salt"}, g \in {"dek", "iv1", "iv2", "iv3", "salt"} :
                  procs.c[p].rnd[f] # 0 => procs.c[p].rnd[f] # procs.c[q].rnd[g]

C31_Witness ==
    /\ procs.c["c1"].pc = "done" /\ procs.c["c2"].pc = "done"
    /\ procs.c["c1"].kind = "dynamic" /\ procs.c["c2"].kind = "dynamic"
    /\ procs.c["c1"].data # procs.c["c2"].data
    /\ procs.c["c1"].fileId = 3 /\ procs.c["c2"].fileId = 2
    /\ procs.c["c1"].pointerFileId = 4 /\ procs.c["c2"].pointerFileId = 5
    /\ ReceiptOfLink(procs.c["c1"].link).out = Raw(procs.c["c1"].data)

====
